---- MODULE Spec2Model ----
(***************************************************************************)
(* Verification model of the Python helper scripts of vscode-jupyter:      *)
(* variable/children descriptions, the Windows kernel interrupt daemon,    *)
(* data frame row windows, output capturing magics and selection           *)
(* normalisation.  Each helper is a separate specification over its own    *)
(* variables; the variables of the other helpers stay at their idle value. *)
(***************************************************************************)
EXTENDS Integers, Sequences, FiniteSets, TLC

VARIABLES
    glob,      \* variable viewer: the shape of the kernel's globals()
    req,       \* variable viewer: the request (version, root, chain, start)
    res,       \* variable viewer: what the call returned
    tsIn,      \* value strings: the variable whose value string is asked for
    tsOut,     \* value strings: the value string each script produced
    dpc,       \* interrupt daemon: "boot", "loop" (reading stdin) or "done"
    ppid,      \* interrupt daemon: args.ppid
    interrupt_handles, \* interrupt daemon: PythonKernelInterrupter.interrupt_handles
    evObj,     \* interrupt daemon: the process's handle table (handle value -> event object, 0 = not open)
    nObj,      \* interrupt daemon: number of event objects created so far
    nDupe,     \* interrupt daemon: number of handles duplicated into the parent so far
    madeFor,   \* interrupt daemon: parent handle -> the event object INITIALIZE_INTERRUPT created for it
    closedObjs, \* interrupt daemon: the event objects whose handle was closed
    stdout,    \* interrupt daemon: the lines printed
    last,      \* interrupt daemon: the stdin line processed last and what processing it did
    nLines,    \* interrupt daemon: number of stdin lines read
    dfIn,      \* data frames: the value whose rows are asked for
    dfArgs,    \* data frames: the start and end of the request
    dfOut,     \* data frames: what _VSCODE_getDataFrameRows returned
    dfCol,     \* data frames: what _VSCODE_getDataFrameColumn returned
    sysv,      \* capture: sys.stdout, sys.stderr, shell.display_pub and sys.displayhook
    hasShell,  \* capture: whether get_ipython() returns a shell
    cstack,    \* capture: the capture_output objects entered and not yet exited
    cexc,      \* capture: whether an exception is propagating
    nEnters,   \* capture: number of __enter__ calls so far
    lastOp,    \* capture: the last __enter__ or __exit__, with sysv before and after it
    user_ns,   \* capture: shell.user_ns (0 = the name is not a key)
    lastMagic, \* capture: the last vsccapture run
    nRuns,     \* capture: number of vsccapture runs so far
    selection, \* normalize: the selection given to normalize_lines, as its lines
    normalized, \* normalize: what normalize_lines returned, as its lines
    envIn, \* environment: os.pathsep, os.environ and sys.path of the process
    envPrinted, \* environment: the map printEnvVariables printed
    envFiled, \* environment: the map printEnvVariablesToFile wrote
    os, \* OutStream: the attributes of the stream object
    osEcho, \* OutStream: what the echo stream has been given
    osLast, \* OutStream: the last call, its outcome and the state before it
    osWritten, \* OutStream: what write has accepted since the last getvalue
    osCalls, \* OutStream: number of calls so far
    infoIn, \* data frame info: the column labels, index name and row count of the DataFrame
    infoOut, \* data frame info: what _VSCODE_getDataFrameInfo gave
    pgChildren, \* paging: the children the successive calls delivered, concatenated
    pgDone \* paging: whether a call has delivered an empty page

viewerVars == <<glob, req, res>>
truncVars == <<tsIn, tsOut>>
daemonVars == <<dpc, ppid, interrupt_handles, evObj, nObj, nDupe, madeFor, closedObjs,
                stdout, last, nLines>>
frameVars == <<dfIn, dfArgs, dfOut, dfCol>>
captureVars == <<sysv, hasShell, cstack, cexc, nEnters, lastOp, user_ns, lastMagic, nRuns>>
normVars == <<selection, normalized>>
envVars == <<envIn, envPrinted, envFiled>>
streamVars == <<os, osEcho, osLast, osWritten, osCalls>>
infoVars == <<infoIn, infoOut>>
pagingVars == <<pgChildren, pgDone>>
vars == <<viewerVars, truncVars, daemonVars, frameVars, captureVars, normVars, envVars, streamVars, infoVars, pagingVars>>

(***************************************************************************)
(* Bounds of the model.                                                    *)
(***************************************************************************)
MaxCount == 52
MaxStart == 54
MaxSmall == 2
Slack == 3
MaxLines == 4
MaxId == 2
MaxHandle == 3
MaxRows == 4
MaxRowIndex == 5
MaxEnters == 3
MaxRuns == 2
MaxCellTokens == 2
MaxSelLines == 4
MaxIndent == 1
MaxColumn == 2
MaxPathEntries == 2
MaxCalls == 3
MaxNames == 2

(***************************************************************************)
(* Program constants.                                                      *)
(***************************************************************************)
maxStringLength == 1000
arrayPageSize == 50
collectionTypes == {"list", "tuple", "set"}
typesToExclude == {"module", "function", "method", "class", "type"}

Min(a, b) == IF a < b THEN a ELSE b
Max(a, b) == IF a > b THEN a ELSE b

(***************************************************************************)
(* Python values.  Every value is a record of one shape:                   *)
(*   type  - type(v).__name__                                              *)
(*   n     - the number of an int                                          *)
(*   text  - the characters of a str                                       *)
(*   items - the elements of a list/tuple/set, the values of a dict or the *)
(*           attribute values of an object with __dict__                   *)
(*   keys  - the keys of a dict / attribute names of an object             *)
(***************************************************************************)
MkVal(t, n, text, items, keys) ==
    [type |-> t, n |-> n, text |-> text, items |-> items, keys |-> keys]
MkInt(i) == MkVal("int", i, <<>>, <<>>, <<>>)
MkNone == MkVal("NoneType", 0, <<>>, <<>>, <<>>)
MkStr(chars) == MkVal("str", 0, chars, <<>>, <<>>)
MkColl(kind, items) == MkVal(kind, 0, <<>>, items, <<>>)
MkDict(keys, items) == MkVal("dict", 0, <<>>, items, keys)
MkObject(keys, items) == MkVal("Obj", 0, <<>>, items, keys)
MkFunction == MkVal("function", 0, <<>>, <<>>, <<>>)
MkMethod == MkVal("builtin_function_or_method", 0, <<>>, <<>>, <<>>)
\* the outcome of an expression that raised
Raised == MkVal("$raised", 0, <<>>, <<>>, <<>>)

\* a property of a property chain: an int index or a str name
PInt(i) == [isInt |-> TRUE, i |-> i, s |-> ""]
PStr(s) == [isInt |-> FALSE, i |-> 0, s |-> s]

(***************************************************************************)
(* Strings are sequences of one-character strings.                         *)
(***************************************************************************)
DigitChars == <<"0", "1", "2", "3", "4", "5", "6", "7", "8", "9">>

\* str(i) for an int i >= 0
RECURSIVE StrOfInt(_)
StrOfInt(i) ==
    IF i < 10 THEN <<DigitChars[i + 1]>>
    ELSE StrOfInt(i \div 10) \o <<DigitChars[(i % 10) + 1]>>

\* repr(v)
RECURSIVE repr(_)
RECURSIVE JoinRepr(_, _, _)
\* ", ".join(repr(x) for x in items[lo..hi]), halving the range
JoinRepr(items, lo, hi) ==
    IF lo > hi THEN <<>>
    ELSE IF lo = hi THEN repr(items[lo])
    ELSE LET mid == (lo + hi) \div 2
         IN  JoinRepr(items, lo, mid) \o <<",", " ">> \o JoinRepr(items, mid + 1, hi)
RECURSIVE JoinDictRepr(_, _, _, _)
JoinDictRepr(keys, items, lo, hi) ==
    IF lo > hi THEN <<>>
    ELSE IF lo = hi THEN <<"'", keys[lo], "'", ":", " ">> \o repr(items[lo])
    ELSE LET mid == (lo + hi) \div 2
         IN  JoinDictRepr(keys, items, lo, mid) \o <<",", " ">>
                 \o JoinDictRepr(keys, items, mid + 1, hi)
repr(v) ==
    CASE v.type = "int" -> StrOfInt(v.n)
      [] v.type = "str" -> <<"'">> \o v.text \o <<"'">>
      [] v.type = "NoneType" -> <<"N", "o", "n", "e">>
      [] v.type = "list" -> <<"[">> \o JoinRepr(v.items, 1, Len(v.items)) \o <<"]">>
      [] v.type = "tuple" ->
            <<"(">> \o JoinRepr(v.items, 1, Len(v.items))
                \o (IF Len(v.items) = 1 THEN <<",">> ELSE <<>>) \o <<")">>
      [] v.type = "set" ->
            IF Len(v.items) = 0 THEN <<"s", "e", "t", "(", ")">>
            ELSE <<"{">> \o JoinRepr(v.items, 1, Len(v.items)) \o <<"}">>
      [] v.type = "dict" ->
            <<"{">> \o JoinDictRepr(v.keys, v.items, 1, Len(v.items)) \o <<"}">>
      [] OTHER -> <<"<", v.type, ">">>

\* len(v) of a value with __len__
PyLen(v) == IF v.type = "str" THEN Len(v.text) ELSE Len(v.items)

\* hasattr(v, "__len__"), hasattr(v, "__getitem__"), hasattr(v, "__dict__")
HasLen(v) == v.type \in {"list", "tuple", "set", "dict", "str"}
HasGetItem(v) == v.type \in {"list", "tuple", "dict", "str"}
HasDict(v) == v.type \in {"Obj", "function", "module"}

\* names starting with "__" and names starting with "_" (but not "__")
DunderNames == {"__class__", "__dict__", "__call__", "__name__"}
PrivateNames == {"_p"}

\* dir(v): the sorted attribute names of a value
Dir(v) ==
    CASE v.type = "Obj" -> <<"__class__", "__dict__">> \o v.keys
      [] v.type \in {"function", "module"} -> <<"__call__", "__name__">>
      [] v.type = "list" -> <<"__class__", "append">>
      [] v.type = "dict" -> <<"__class__", "keys">>
      [] OTHER -> <<"__class__">>

IndexOf(seq, x) ==
    IF \E k \in 1..Len(seq) : seq[k] = x
    THEN CHOOSE k \in 1..Len(seq) : seq[k] = x
    ELSE 0

\* hasattr(v, name) and getattr(v, name)
HasAttr(v, name) == \E k \in 1..Len(Dir(v)) : Dir(v)[k] = name
GetAttr(v, name) ==
    IF v.type = "Obj" /\ IndexOf(v.keys, name) > 0
    THEN v.items[IndexOf(v.keys, name)]
    ELSE MkMethod

\* the module prefix and the method resolution order of a type
TypeModule(t) == IF t = "Obj" THEN "__main__." ELSE ""
Mro(t) == IF t = "object" THEN <<"object">> ELSE <<TypeModule(t) \o t, "object">>

\* variable[i] for an int i >= 0; Raised stands for IndexError / KeyError
GetItem(v, i) ==
    CASE v.type \in {"list", "tuple"} ->
            IF i < Len(v.items) THEN v.items[i + 1] ELSE Raised
      [] v.type = "str" ->
            IF i < Len(v.text) THEN MkStr(<<v.text[i + 1]>>) ELSE Raised
      [] OTHER -> Raised

\* list(variable)[i] for a set
SetItem(v, i) == IF i < Len(v.items) THEN v.items[i + 1] ELSE Raised

(***************************************************************************)
(* vscodeGetVariablesForProvider.py                                        *)
(***************************************************************************)
Desc(t, ifaces, hasCount, count, named, hasProps, props, value) ==
    [type |-> t, interfaces |-> ifaces, hasCount |-> hasCount, count |-> count,
     hasNamedChildren |-> named, hasProperties |-> hasProps,
     properties |-> props, value |-> value]

ChildDesc(d, name, root, chain, language) ==
    [type |-> d.type, interfaces |-> d.interfaces, hasCount |-> d.hasCount,
     count |-> d.count, hasNamedChildren |-> d.hasNamedChildren,
     hasProperties |-> d.hasProperties, properties |-> d.properties,
     value |-> d.value, name |-> name, root |-> root,
     propertyChain |-> chain, language |-> language]

truncateString(variable) ==
    LET string == repr(variable)
        sizeInfo == IF variable.type = "str"
                    THEN <<"\n", "\n", "L", "e", "n", "g", "t", "h", ":", " ">>
                             \o StrOfInt(PyLen(variable))
                    ELSE <<>>
    IN  IF Len(string) > maxStringLength
        THEN SubSeq(string, 1, maxStringLength - 1) \o <<".", ".", ".">> \o sizeInfo
        ELSE string

getValue(variable) == truncateString(variable)

getPropertyNames(variable) ==
    LET IsPublic(prop) == prop \notin DunderNames /\ prop \notin PrivateNames
        IsPrivate(prop) == prop \in PrivateNames
    IN  SelectSeq(Dir(variable), IsPublic) \o SelectSeq(Dir(variable), IsPrivate)

getFullType(t) == TypeModule(t) \o t

getVariableDescription(variable) ==
    LET t == getFullType(variable.type)
        hasCount == HasLen(variable) /\ t \in collectionTypes
    IN  Desc(t,
             [k \in 1..Len(Mro(variable.type)) |-> Mro(variable.type)[k]],
             hasCount,
             IF hasCount THEN PyLen(variable) ELSE 0,
             HasDict(variable) \/ variable.type = "dict",
             FALSE, <<>>,
             getValue(variable))

\* the walk of both getChildProperty versions; onError is what an exception
\* raised by variable[property] turns into
RECURSIVE WalkChain(_, _, _, _)
WalkChain(variable, propertyChain, k, onError) ==
    IF k > Len(propertyChain) THEN variable
    ELSE LET property == propertyChain[k]
             next ==
                IF property.isInt
                THEN IF HasGetItem(variable) THEN GetItem(variable, property.i)
                     ELSE IF variable.type = "set" THEN SetItem(variable, property.i)
                     ELSE MkNone
                ELSE IF HasAttr(variable, property.s) THEN GetAttr(variable, property.s)
                     ELSE IF variable.type = "dict" /\ IndexOf(variable.keys, property.s) > 0
                          THEN variable.items[IndexOf(variable.keys, property.s)]
                          ELSE MkNone
             returnsNone ==
                IF property.isInt
                THEN ~HasGetItem(variable) /\ variable.type # "set"
                ELSE ~HasAttr(variable, property.s)
                     /\ ~(variable.type = "dict" /\ IndexOf(variable.keys, property.s) > 0)
         IN  IF next = Raised THEN onError
             ELSE IF returnsNone THEN MkNone
             ELSE WalkChain(next, propertyChain, k + 1, onError)

getChildProperty(root, propertyChain) == WalkChain(root, propertyChain, 1, MkNone)

\* what a call returned: ret is "str" (a JSON string, payload its decoded
\* content), "list" (a Python list), "None" or "raise"; printed is what the
\* call wrote to stdout
Ret(kind, payload, printed) == [ret |-> kind, payload |-> payload, printed |-> printed]
RetRaise == Ret("raise", <<>>, <<>>)
NoRes == Ret("pending", <<>>, <<>>)

\* mutant: the page end forgets the start index
PageChildren_NoStart(parent, parentInfo, rootVarName, propertyChain, startIndex) ==
    IF parentInfo.count > 0
    THEN LET lastItem == Min(parentInfo.count, arrayPageSize)
             size == Max(0, lastItem - startIndex)
         IN  [k \in 1..size |->
                LET i == startIndex + k - 1
                IN  ChildDesc(getVariableDescription(getChildProperty(parent, <<PInt(i)>>)),
                              StrOfInt(i), rootVarName,
                              Append(propertyChain, PInt(i)), "python")]
    ELSE <<>>

\* the page of children of a list/tuple/set parent
PageChildren(parent, parentInfo, rootVarName, propertyChain, startIndex) ==
    IF parentInfo.count > 0
    THEN LET lastItem == Min(parentInfo.count, startIndex + arrayPageSize)
             size == Max(0, lastItem - startIndex)
         IN  [k \in 1..size |->
                LET i == startIndex + k - 1
                IN  ChildDesc(getVariableDescription(getChildProperty(parent, <<PInt(i)>>)),
                              StrOfInt(i), rootVarName,
                              Append(propertyChain, PInt(i)), "python")]
    ELSE <<>>

\* the named children of an object or dict parent
NamedChildren(parent, rootVarName, propertyChain) ==
    LET childrenNames == IF HasDict(parent) THEN getPropertyNames(parent)
                         ELSE IF parent.type = "dict" THEN parent.keys
                         ELSE <<>>
        Keep(prop) ==
            LET child_property == getChildProperty(parent, <<PStr(prop)>>)
            IN  child_property # MkNone /\ child_property.type \notin typesToExclude
        kept == SelectSeq(childrenNames, Keep)
    IN  [k \in 1..Len(kept) |->
            ChildDesc(getVariableDescription(getChildProperty(parent, <<PStr(kept[k])>>)),
                      <<kept[k]>>, rootVarName,
                      Append(propertyChain, PStr(kept[k])), "")]

\* globals: the names the kernel defines, as a function of the chosen shape
GlobalNames == {"v", "w", "o", "d", "none", "fn"}
Target(g) == MkColl(g.kind, [i \in 1..g.n |-> MkInt(3 * i)])
Globals(g) ==
    [name \in GlobalNames |->
        CASE name = "v" -> Target(g)
          [] name = "w" -> MkColl("list", <<Target(g)>>)
          [] name = "o" -> MkObject(<<"_p", "f", "x">>, <<MkInt(1), MkFunction, Target(g)>>)
          [] name = "d" -> MkDict(<<"k">>, <<Target(g)>>)
          [] name = "none" -> MkNone
          [] OTHER -> MkFunction]

VSCODE_getAllChildrenDescriptions(g, rootVarName, propertyChain, startIndex) ==
    IF rootVarName \notin GlobalNames THEN RetRaise
    ELSE LET root == Globals(g)[rootVarName]
         IN  IF root = MkNone THEN Ret("list", <<>>, <<>>)
             ELSE LET parent == IF Len(propertyChain) > 0
                                THEN getChildProperty(root, propertyChain)
                                ELSE root
                      parentInfo == getVariableDescription(parent)
                      children ==
                          IF parentInfo.hasCount
                          THEN PageChildren(parent, parentInfo, rootVarName,
                                            propertyChain, startIndex)
                          ELSE IF parentInfo.hasNamedChildren
                               THEN NamedChildren(parent, rootVarName, propertyChain)
                               ELSE <<>>
                  IN  Ret("str", children, <<>>)

(***************************************************************************)
(* vscodeGetVariableInfo.py (the functions nested in _VSCODE_getVariable)  *)
(***************************************************************************)
truncateString_VI(string) ==
    IF Len(string) > maxStringLength
    THEN SubSeq(string, 1, maxStringLength - 1) \o <<".", ".", ".">>
    ELSE string

getValue_VI(variable) == truncateString_VI(repr(variable))

getPropertyNames_VI(variable) ==
    LET NotDunder(prop) == prop \notin DunderNames
    IN  SelectSeq(Dir(variable), NotDunder)

getType(variable) == TypeModule(variable.type) \o variable.type

getVariableDescription_VI(variable) ==
    LET t == getType(variable)
        hasCount == HasLen(variable) /\ t \in collectionTypes
        hasProps == HasDict(variable) \/ variable.type = "dict"
    IN  Desc(t, <<>>, hasCount,
             IF hasCount THEN PyLen(variable) ELSE 0,
             FALSE, hasProps,
             IF HasDict(variable) THEN getPropertyNames_VI(variable)
             ELSE IF variable.type = "dict" THEN variable.keys
             ELSE <<>>,
             getValue_VI(variable))

\* no try/except here: an exception of variable[property] propagates
getChildProperty_VI(root, propertyChain) == WalkChain(root, propertyChain, 1, Raised)

\* return json when debugging, print it (and return None) otherwise
Deliver(is_debugging, payload) ==
    IF is_debugging THEN Ret("str", payload, <<>>)
    ELSE Ret("None", <<>>, <<payload>>)

\* mutant: a page runs to the end of the collection
PageChildren_VI_WholeTail(parent, parentInfo, rootVarName, propertyChain, startIndex) ==
    IF parentInfo.count > 0
    THEN LET lastItem == parentInfo.count
             size == Max(0, lastItem - startIndex)
         IN  [k \in 1..size |->
                LET i == startIndex + k - 1
                IN  ChildDesc(getVariableDescription_VI(getChildProperty_VI(parent, <<PInt(i)>>)),
                              StrOfInt(i), rootVarName,
                              Append(propertyChain, PInt(i)), "python")]
    ELSE <<>>

PageChildren_VI(parent, parentInfo, rootVarName, propertyChain, startIndex) ==
    IF parentInfo.count > 0
    THEN LET lastItem == Min(parentInfo.count, startIndex + arrayPageSize)
             size == Max(0, lastItem - startIndex)
         IN  [k \in 1..size |->
                LET i == startIndex + k - 1
                IN  ChildDesc(getVariableDescription_VI(getChildProperty_VI(parent, <<PInt(i)>>)),
                              StrOfInt(i), rootVarName,
                              Append(propertyChain, PInt(i)), "python")]
    ELSE <<>>

NamedChildren_VI(parent, parentInfo, rootVarName, propertyChain) ==
    [k \in 1..Len(parentInfo.properties) |->
        LET prop == parentInfo.properties[k]
        IN  ChildDesc(getVariableDescription_VI(getChildProperty_VI(parent, <<PStr(prop)>>)),
                      <<prop>>, rootVarName, Append(propertyChain, PStr(prop)), "")]

VSCODE_getAllChildrenDescriptions_VI(g, is_debugging, rootVarName, propertyChain, startIndex) ==
    IF rootVarName \notin GlobalNames THEN RetRaise
    ELSE LET root == Globals(g)[rootVarName]
         IN  IF root = MkNone THEN Ret("list", <<>>, <<>>)
             ELSE LET parent == IF Len(propertyChain) > 0
                                THEN getChildProperty_VI(root, propertyChain)
                                ELSE root
                  IN  IF parent = Raised THEN RetRaise
                      ELSE LET parentInfo == getVariableDescription_VI(parent)
                               children ==
                                  IF parentInfo.hasCount
                                  THEN PageChildren_VI(parent, parentInfo, rootVarName,
                                                       propertyChain, startIndex)
                                  ELSE IF parentInfo.hasProperties
                                       THEN NamedChildren_VI(parent, parentInfo,
                                                             rootVarName, propertyChain)
                                       ELSE <<>>
                           IN  Deliver(is_debugging, children)

(***************************************************************************)
(* The variable viewer as a state machine: a request is drawn, one call    *)
(* answers it.                                                             *)
(***************************************************************************)
CollKinds == {"list", "tuple", "set"}

\* requests whose parent is the collection of the chosen kind and size
CollRequests == {<<"v", <<>>>>, <<"w", <<PInt(0)>>>>}
\* requests for other parents, undefined names and unresolvable chains
OtherRequests ==
    {<<"o", <<>>>>, <<"d", <<>>>>, <<"o", <<PStr("x")>>>>, <<"d", <<PStr("k")>>>>,
     <<"none", <<>>>>, <<"undefined", <<>>>>, <<"v", <<PStr("nope")>>>>,
     <<"w", <<PInt(1)>>>>, <<"fn", <<>>>>}

Req(version, dbg, rc, start) ==
    [version |-> version, is_debugging |-> dbg, root |-> rc[1], chain |-> rc[2],
     start |-> start]

ViewerStart ==
    /\ res = NoRes
    /\ \/ /\ glob \in [kind : CollKinds, n : 0..MaxCount]
          /\ \E rc \in CollRequests, start \in 0..MaxStart :
                req \in {Req("provider", TRUE, rc, start), Req("info", TRUE, rc, start)}
       \/ /\ glob \in [kind : CollKinds, n : 0..MaxSmall]
          /\ \E rc \in CollRequests \cup OtherRequests, start \in 0..MaxSmall,
                dbg \in BOOLEAN :
                req \in {Req("provider", TRUE, rc, start), Req("info", dbg, rc, start)}

CallProvider ==
    /\ res = NoRes
    /\ req.version = "provider"
    /\ res' = VSCODE_getAllChildrenDescriptions(glob, req.root, req.chain, req.start)
    /\ UNCHANGED <<glob, req, truncVars, daemonVars, frameVars, captureVars, normVars, envVars, streamVars, infoVars, pagingVars>>

CallVariableInfo ==
    /\ res = NoRes
    /\ req.version = "info"
    /\ res' = VSCODE_getAllChildrenDescriptions_VI(glob, req.is_debugging, req.root,
                                                   req.chain, req.start)
    /\ UNCHANGED <<glob, req, truncVars, daemonVars, frameVars, captureVars, normVars, envVars, streamVars, infoVars, pagingVars>>

ViewerNext == CallProvider \/ CallVariableInfo

(***************************************************************************)
(* Claims about the variable viewer.                                       *)
(***************************************************************************)
\* the children a finished call delivered (returned, or printed when not debugging)
Delivered == IF res.ret = "None" /\ Len(res.printed) = 1 THEN res.printed[1] ELSE res.payload
ViewerDone == res.ret \in {"str", "None"}
CollParent == <<req.root, req.chain>> \in CollRequests

\* the number a decimal string denotes
DigitValue(c) == CHOOSE d \in 0..9 : DigitChars[d + 1] = c
RECURSIVE ParseInt(_)
ParseInt(chars) ==
    IF Len(chars) = 0 THEN 0
    ELSE 10 * ParseInt(SubSeq(chars, 1, Len(chars) - 1)) + DigitValue(chars[Len(chars)])

\* C1: for a list, tuple or set parent with n elements and start index s the
\* call delivers one child per index of s..min(n, s+arrayPageSize)-1, in
\* increasing order, child i named str(i) with the parent's chain followed
\* by i; never more than arrayPageSize children, none when s >= n.
C1_PageOfChildren ==
    (ViewerDone /\ CollParent) =>
        LET children == Delivered
            n == glob.n
            s == req.start
            pageEnd == IF n < s + arrayPageSize THEN n ELSE s + arrayPageSize
        IN  /\ Len(children) <= arrayPageSize
            /\ (s >= n => children = <<>>)
            /\ {children[k].propertyChain[Len(req.chain) + 1].i :
                    k \in 1..Len(children)} = s..(pageEnd - 1)
            /\ \A k \in 1..Len(children) :
                  /\ Len(children[k].propertyChain) = Len(req.chain) + 1
                  /\ SubSeq(children[k].propertyChain, 1, Len(req.chain)) = req.chain
                  /\ children[k].propertyChain[Len(req.chain) + 1].isInt
                  /\ children[k].propertyChain[Len(req.chain) + 1].i = s + k - 1
                  /\ ParseInt(children[k].name) = s + k - 1
                  /\ children[k].name = StrOfInt(s + k - 1)

\* C1 witness: a full page that starts after index 0 and ends before the last element
C1_Witness ==
    /\ ViewerDone /\ CollParent
    /\ req.start > 0
    /\ glob.n > req.start + arrayPageSize
    /\ Len(Delivered) = arrayPageSize

\* C22: the provider's _VSCODE_getAllChildrenDescriptions returns a
\* JSON-encoded list as a string for every root variable name, property
\* chain and start index, also for a root that is None or undefined and for
\* a chain that cannot be resolved; it never returns another value and
\* never raises
C22_AlwaysJsonString ==
    (req.version = "provider" /\ res.ret # "pending") => res.ret = "str"

(***************************************************************************)
(* The value string of a description: getValue of both scripts applied to  *)
(* one variable whose repr is around maxStringLength characters long.      *)
(***************************************************************************)
\* a str of L characters and a list of n one-character strs
TextOf(L) == MkStr([k \in 1..L |-> IF k % 7 = 0 THEN "b" ELSE "a"])
ListOf(n) == MkColl("list", [k \in 1..n |-> MkStr(<<"a">>)])

TruncInputs ==
    {TextOf(L) : L \in 0..(maxStringLength + Slack)}
        \cup {ListOf(n) : n \in 0..((maxStringLength \div 5) + Slack)}

NoValue == [done |-> FALSE, version |-> "", value |-> <<>>]

TruncStart ==
    /\ tsIn \in TruncInputs
    /\ tsOut = NoValue

GetValueProvider ==
    /\ ~tsOut.done
    /\ tsOut' = [done |-> TRUE, version |-> "provider", value |-> getValue(tsIn)]
    /\ UNCHANGED <<tsIn, viewerVars, daemonVars, frameVars, captureVars, normVars, envVars, streamVars, infoVars, pagingVars>>

GetValueVariableInfo ==
    /\ ~tsOut.done
    /\ tsOut' = [done |-> TRUE, version |-> "info", value |-> getValue_VI(tsIn)]
    /\ UNCHANGED <<tsIn, viewerVars, daemonVars, frameVars, captureVars, normVars, envVars, streamVars, infoVars, pagingVars>>

TruncNext == GetValueProvider \/ GetValueVariableInfo

\* C5: the value string has at most maxStringLength characters, and is the
\* repr itself when the repr has at most maxStringLength characters.
C5_ValueBounded ==
    tsOut.done =>
        /\ Len(tsOut.value) <= maxStringLength
        /\ (Len(repr(tsIn)) <= maxStringLength => tsOut.value = repr(tsIn))

(***************************************************************************)
(* kernel_interrupt_daemon.py                                              *)
(*                                                                         *)
(* A stdin line is its text split on ":": the command word and the fields  *)
(* after it.  A field is the text of an integer or some other text.        *)
(* Event handles are values of this process's handle table; the handle     *)
(* returned to the host is a value of the parent's handle table.  A closed *)
(* handle value may be handed out again by a later CreateEventA.  Using a  *)
(* handle value that is not open either raises (the winapi wrapper checks  *)
(* the result) or is ignored (it does not).                                *)
(***************************************************************************)
IntF(i) == [isInt |-> TRUE, val |-> i]
BadF == [isInt |-> FALSE, val |-> 0]
Line(cmd, fields) == [cmd |-> cmd, fields |-> fields]

IdFields == {IntF(i) : i \in 1..MaxId} \cup {BadF}
HandleFields == {IntF(h) : h \in 1..MaxHandle} \cup {BadF}

InitializeLines == {Line("INITIALIZE_INTERRUPT", <<f>>) : f \in IdFields}
HandleLines(cmd) ==
    {Line(cmd, <<f, h>>) : f \in IdFields, h \in HandleFields}
        \cup {Line(cmd, <<IntF(1)>>)}
OtherLines == {Line("INTERRUPT", <<>>), Line("PING", <<IntF(1)>>)}

\* line.startswith(cmd + ":")
StartsWith(line, cmd) == line.cmd = cmd /\ Len(line.fields) >= 1

\* int(line.split(":")[k]) succeeds
IntAt(line, k) == Len(line.fields) >= k /\ line.fields[k].isInt

\* a printed line
Out(cmd, id, handle) == [cmd |-> cmd, id |-> id, handle |-> handle]
NoHandle == 0

\* what processing a line did: the OS call it made (fn = "" when none), the
\* handle value passed, the event object acted on (0 when the value was not
\* open), whether an exception was logged and whether a response was printed
Step(line, fn, ev, obj, raised, printed) ==
    [line |-> line, fn |-> fn, ev |-> ev, obj |-> obj, raised |-> raised,
     printed |-> printed]
NoStep == Step(Line("", <<>>), "", 0, 0, FALSE, FALSE)

EventHandles == 1..MaxLines
FreeHandles == {ev \in EventHandles : evObj[ev] = 0}
\* CreateEventA returns any handle value that is not open: a value closed
\* before, or the lowest value never used
NewEventHandles ==
    {ev \in FreeHandles :
        \/ \E d \in DOMAIN interrupt_handles : interrupt_handles[d] = ev
        \/ \A other \in FreeHandles :
              (\A d \in DOMAIN interrupt_handles : interrupt_handles[d] # other)
                  => ev <= other}

Put(f, k, v) == [x \in DOMAIN f \cup {k} |-> IF x = k THEN v ELSE f[x]]
EmptyMap == [x \in {} |-> 0]

Boot ==
    /\ dpc = "boot"
    /\ stdout' = Append(stdout, Out("ppid", ppid, NoHandle))
    /\ dpc' = IF ppid = 0 THEN "done" ELSE "loop"
    /\ interrupt_handles' = EmptyMap
    /\ UNCHANGED <<ppid, evObj, nObj, nDupe, madeFor, closedObjs, last, nLines>>
    /\ UNCHANGED <<viewerVars, truncVars, frameVars, captureVars, normVars, envVars, streamVars, infoVars, pagingVars>>

EndOfInput ==
    /\ dpc = "loop"
    /\ dpc' = "done"
    /\ UNCHANGED <<ppid, interrupt_handles, evObj, nObj, nDupe, madeFor, closedObjs,
                   stdout, last, nLines>>
    /\ UNCHANGED <<viewerVars, truncVars, frameVars, captureVars, normVars, envVars, streamVars, infoVars, pagingVars>>

\* PythonKernelInterrupter.initialize_interrupt, then the response
ReadInitialize ==
    /\ dpc = "loop" /\ nLines < MaxLines
    /\ \E line \in InitializeLines, ev \in NewEventHandles :
          LET obj == nObj + 1
              dupe == nDupe + 1
              ok == IntAt(line, 1)
          IN  /\ evObj' = [evObj EXCEPT ![ev] = obj]
              /\ nObj' = obj
              /\ nDupe' = dupe
              /\ interrupt_handles' = Put(interrupt_handles, dupe, ev)
              /\ madeFor' = Put(madeFor, dupe, obj)
              /\ stdout' = IF ok
                           THEN Append(stdout, Out("INITIALIZE_INTERRUPT",
                                                   line.fields[1].val, dupe))
                           ELSE stdout
              /\ last' = Step(line, "CreateEventA", ev, obj, ~ok, ok)
    /\ nLines' = nLines + 1
    /\ UNCHANGED <<dpc, ppid, closedObjs>>
    /\ UNCHANGED <<viewerVars, truncVars, frameVars, captureVars, normVars, envVars, streamVars, infoVars, pagingVars>>

\* PythonKernelInterrupter.interrupt, then the response
ReadInterrupt ==
    /\ dpc = "loop" /\ nLines < MaxLines
    /\ \E line \in HandleLines("INTERRUPT"), wrapperRaises \in BOOLEAN :
          IF ~IntAt(line, 2)
          THEN /\ last' = Step(line, "", 0, 0, TRUE, FALSE)
               /\ UNCHANGED stdout
          ELSE LET handle == line.fields[2].val
                   known == handle \in DOMAIN interrupt_handles
                   ev == IF known THEN interrupt_handles[handle] ELSE 0
                   obj == IF known THEN evObj[ev] ELSE 0
                   raisedInCall == known /\ obj = 0 /\ wrapperRaises
                   ok == ~raisedInCall /\ IntAt(line, 1)
               IN  /\ (known /\ obj = 0) \/ ~wrapperRaises
                   /\ last' = Step(line, IF known THEN "SetEvent" ELSE "", ev, obj,
                                   ~ok, ok)
                   /\ stdout' = IF ok
                                THEN Append(stdout, Out("INTERRUPT", line.fields[1].val,
                                                        NoHandle))
                                ELSE stdout
    /\ nLines' = nLines + 1
    /\ UNCHANGED <<dpc, ppid, interrupt_handles, evObj, nObj, nDupe, madeFor, closedObjs>>
    /\ UNCHANGED <<viewerVars, truncVars, frameVars, captureVars, normVars, envVars, streamVars, infoVars, pagingVars>>

\* PythonKernelInterrupter.close_interrupt_handle, then the response
ReadKill ==
    /\ dpc = "loop" /\ nLines < MaxLines
    /\ \E line \in HandleLines("KILL_INTERRUPT"), wrapperRaises \in BOOLEAN :
          IF ~IntAt(line, 2)
          THEN /\ last' = Step(line, "", 0, 0, TRUE, FALSE)
               /\ UNCHANGED <<stdout, evObj, closedObjs>>
          ELSE LET handle == line.fields[2].val
                   known == handle \in DOMAIN interrupt_handles
                   ev == IF known THEN interrupt_handles[handle] ELSE 0
                   obj == IF known THEN evObj[ev] ELSE 0
                   raisedInCall == known /\ obj = 0 /\ wrapperRaises
                   ok == ~raisedInCall /\ IntAt(line, 1)
               IN  /\ (known /\ obj = 0) \/ ~wrapperRaises
                   /\ evObj' = IF known /\ obj # 0 THEN [evObj EXCEPT ![ev] = 0]
                               ELSE evObj
                   /\ closedObjs' = IF known /\ obj # 0 THEN closedObjs \cup {obj}
                                    ELSE closedObjs
                   /\ last' = Step(line, IF known THEN "CloseHandle" ELSE "", ev, obj,
                                   ~ok, ok)
                   /\ stdout' = IF ok
                                THEN Append(stdout, Out("KILL_INTERRUPT",
                                                        line.fields[1].val, NoHandle))
                                ELSE stdout
    /\ nLines' = nLines + 1
    /\ UNCHANGED <<dpc, ppid, interrupt_handles, nObj, nDupe, madeFor>>
    /\ UNCHANGED <<viewerVars, truncVars, frameVars, captureVars, normVars, envVars, streamVars, infoVars, pagingVars>>

\* mutant: an unknown command ends the loop
ReadUnknown_Stops ==
    /\ dpc = "loop" /\ nLines < MaxLines
    /\ \E line \in OtherLines : last' = Step(line, "", 0, 0, FALSE, FALSE)
    /\ nLines' = nLines + 1
    /\ dpc' = "done"
    /\ UNCHANGED <<ppid, interrupt_handles, evObj, nObj, nDupe, madeFor,
                   closedObjs, stdout>>
    /\ UNCHANGED <<viewerVars, truncVars, frameVars, captureVars, normVars, envVars, streamVars, infoVars, pagingVars>>

\* any other line: logging.warning("Unknown command")
ReadUnknown ==
    /\ dpc = "loop" /\ nLines < MaxLines
    /\ \E line \in OtherLines : last' = Step(line, "", 0, 0, FALSE, FALSE)
    /\ nLines' = nLines + 1
    /\ UNCHANGED <<dpc, ppid, interrupt_handles, evObj, nObj, nDupe, madeFor,
                   closedObjs, stdout>>
    /\ UNCHANGED <<viewerVars, truncVars, frameVars, captureVars, normVars, envVars, streamVars, infoVars, pagingVars>>

DaemonStart ==
    /\ dpc = "boot"
    /\ ppid \in {0, 4}
    /\ interrupt_handles = EmptyMap
    /\ evObj = [ev \in EventHandles |-> 0]
    /\ nObj = 0
    /\ nDupe = 0
    /\ madeFor = EmptyMap
    /\ closedObjs = {}
    /\ stdout = <<>>
    /\ last = NoStep
    /\ nLines = 0

DaemonNext ==
    Boot \/ EndOfInput \/ ReadInitialize \/ ReadInterrupt \/ ReadKill \/ ReadUnknown

(***************************************************************************)
(* Claims about the interrupt daemon.                                      *)
(***************************************************************************)
\* the last line was a command with integer fields
WellFormed(line) ==
    \/ line.cmd = "INITIALIZE_INTERRUPT" /\ Len(line.fields) = 1 /\ line.fields[1].isInt
    \/ /\ line.cmd \in {"INTERRUPT", "KILL_INTERRUPT"}
       /\ Len(line.fields) = 2 /\ line.fields[1].isInt /\ line.fields[2].isInt

\* C2: an INTERRUPT line signals an event only when its handle was returned
\* by an earlier INITIALIZE_INTERRUPT, and the event signaled is the one
\* that INITIALIZE_INTERRUPT created for that handle; for a handle never
\* returned SetEvent is not called.
C2_SignalsOwnEvent ==
    (last.line.cmd = "INTERRUPT" /\ IntAt(last.line, 2)) =>
        LET handle == last.line.fields[2].val
        IN  /\ handle \notin DOMAIN madeFor => last.fn = ""
            /\ (last.fn = "SetEvent" /\ last.obj # 0) =>
                  (handle \in DOMAIN madeFor /\ last.obj = madeFor[handle])

\* C3: processing a well-formed command line prints exactly one response,
\* with the command name and request id of the line (and the new handle for
\* INITIALIZE_INTERRUPT), as the last line of stdout.
C3_OneResponsePerCommand ==
    WellFormed(last.line) =>
        /\ last.printed
        /\ Len(stdout) >= 2
        /\ stdout[Len(stdout)].cmd = last.line.cmd
        /\ stdout[Len(stdout)].id = last.line.fields[1].val
        /\ (last.line.cmd = "INITIALIZE_INTERRUPT" => stdout[Len(stdout)].handle = nDupe)

\* the step read one stdin line
ReadsLine == nLines' = nLines + 1

\* C18: once KILL_INTERRUPT has closed the event of a handle no later command
\* acts on it: whenever SetEvent or CloseHandle is called for a handle, the
\* value passed is open and is the event INITIALIZE_INTERRUPT created for
\* that handle (so no SetEvent after the close and no second CloseHandle)
C18_NoUseAfterClose ==
    last.fn \in {"SetEvent", "CloseHandle"} =>
        LET handle == last.line.fields[2].val
        IN  /\ handle \in DOMAIN madeFor
            /\ last.obj = madeFor[handle]

\* C19: a line for which no response is printed has had no effect: no event
\* was created, signaled or closed for it and interrupt_handles is as before
C19_NoResponseNoEffect ==
    [][(ReadsLine /\ ~last'.printed) =>
          /\ interrupt_handles' = interrupt_handles
          /\ evObj' = evObj
          /\ nObj' = nObj
          /\ ~(last'.fn \in {"CreateEventA", "SetEvent", "CloseHandle"} /\ last'.obj # 0)]_vars

\* the line read by the step is an unknown command or its processing raised
FailsLine == ReadsLine /\ (last'.raised \/ last'.line \in OtherLines)

\* C20: an unknown command or an exception while processing a line does not
\* stop the daemon: nothing is printed for the line and the loop goes on;
\* the daemon ends only at the end of input, or at start-up when ppid is 0
\* before any line is read
C20_FailureDoesNotStop ==
    [][/\ FailsLine => (dpc' = "loop" /\ stdout' = stdout /\ ~last'.printed)
       /\ ReadsLine => (dpc = "loop" /\ dpc' = "loop")
       /\ (dpc # "done" /\ dpc' = "done") =>
             \/ dpc = "boot" /\ ppid = 0 /\ nLines = 0
             \/ dpc = "loop" /\ ~ReadsLine /\ stdout' = stdout]_vars

\* a line failed, a later line was answered and the daemon ended at the end of input
C20_Witness ==
    /\ dpc = "done" /\ ppid # 0
    /\ nLines >= 2
    /\ last.printed
    /\ Len(stdout) < nLines + 1

(***************************************************************************)
(* vscodeDataFrame.py                                                      *)
(*                                                                         *)
(* A value is its kind (type name), its number of dimensions, its dtype    *)
(* and its rows; a row is a sequence of cells.  A pandas DataFrame is its  *)
(* index labels and its rows.                                              *)
(***************************************************************************)
VSCODE_allowedTensorTypes == {"Tensor", "EagerTensor"}

Cell(t, v) == [t |-> t, v |-> v]
Frame(index, data) == [isFrame |-> TRUE, index |-> index, data |-> data]
NotAFrame == [isFrame |-> FALSE, index |-> <<>>, data |-> <<>>]
Value(kind, ndim, dtype, labels, rows) ==
    [kind |-> kind, ndim |-> ndim, dtype |-> dtype, labels |-> labels, rows |-> rows]

\* None as a start or end
None == -1

\* seq[start:end] of Python, for start, end >= 0 or None
Slice(seq, start, end) ==
    LET from == IF start = None THEN 0 ELSE Min(start, Len(seq))
        to == IF end = None THEN Len(seq) ELSE Min(end, Len(seq))
    IN  SubSeq(seq, from + 1, to)

\* pandas.DataFrame(rows): a fresh RangeIndex
NewFrame(rows) == Frame([k \in 1..Len(rows) |-> k - 1], rows)
\* a frame that keeps the labels of the value (Series, dict, DataFrame)
LabelledFrame(v) == Frame(v.labels, v.rows)
\* df.iloc[start:end]
Iloc(df, start, end) == Frame(Slice(df.index, start, end), Slice(df.data, start, end))

VSCODE_stringifyElement(element) ==
    IF element.t \in {"ndarray", "list", "tuple"} THEN Cell("str", element.v) ELSE element

VSCODE_convertNumpyArrayToDataFrame(ndarray, start, end) ==
    LET sliced == IF start # None /\ end # None
                  THEN Value(ndarray.kind, ndarray.ndim, ndarray.dtype,
                             Slice(ndarray.labels, start, end),
                             Slice(ndarray.rows, start, end))
                  ELSE ndarray
        rows == IF sliced.ndim < 3 /\ sliced.dtype # "object" THEN sliced.rows
                ELSE [i \in 1..Len(sliced.rows) |->
                        [j \in 1..Len(sliced.rows[i]) |->
                            VSCODE_stringifyElement(sliced.rows[i][j])]]
    IN  NewFrame(rows)

VSCODE_convertTensorToDataFrame(tensor, start, end) ==
    LET temp == IF tensor.ndim > 0 /\ start # None /\ end # None
                THEN Value(tensor.kind, tensor.ndim, tensor.dtype,
                           Slice(tensor.labels, start, end),
                           Slice(tensor.rows, start, end))
                ELSE tensor
    IN  VSCODE_convertNumpyArrayToDataFrame(temp, None, None)

VSCODE_convertToDataFrame(df, start, end) ==
    CASE df.kind = "list" -> Iloc(NewFrame(df.rows), start, end)
      [] df.kind = "Series" -> Iloc(LabelledFrame(df), start, end)
      [] df.kind = "dict" -> Iloc(LabelledFrame(df), start, end)
      [] df.kind = "SparkDataFrame" -> Iloc(NewFrame(df.rows), start, end)
      [] df.kind \in VSCODE_allowedTensorTypes ->
            VSCODE_convertTensorToDataFrame(df, start, end)
      [] df.kind = "ndarray" -> VSCODE_convertNumpyArrayToDataFrame(df, start, end)
      [] df.kind = "DataArray" ->
            VSCODE_convertNumpyArrayToDataFrame(
                Value("ndarray", df.ndim, df.dtype, Slice(df.labels, start, end),
                      Slice(df.rows, start, end)),
                start, end)
      [] df.kind = "DataFrame" -> Iloc(LabelledFrame(df), start, end)
      [] OTHER -> NotAFrame

\* a replacement that lets NaN through
ReplaceCell_KeepsNan(c) ==
    IF c.t = "float" /\ c.v = "inf" THEN Cell("str", "inf")
    ELSE IF c.t = "float" /\ c.v = "-inf" THEN Cell("str", "-inf")
    ELSE c

\* df.replace({inf: "inf", -inf: "-inf", nan: "nan"})
ReplaceCell(c) ==
    IF c.t = "float" /\ c.v = "inf" THEN Cell("str", "inf")
    ELSE IF c.t = "float" /\ c.v = "-inf" THEN Cell("str", "-inf")
    ELSE IF c.t = "float" /\ c.v = "nan" THEN Cell("str", "nan")
    ELSE c
Replace(df) ==
    Frame(df.index, [i \in 1..Len(df.data) |->
                        [j \in 1..Len(df.data[i]) |-> ReplaceCell(df.data[i][j])]])

VSCODE_getDataFrameRows(df, start, end) ==
    Replace(VSCODE_convertToDataFrame(df, start, end))

\* what _VSCODE_getDataFrameColumn gave: nothing yet, the empty list, an
\* exception, or the values of the column
NoColumn == [status |-> "none", values |-> <<>>]
ColumnValues(values) == [status |-> "values", values |-> values]

\* the columns of a frame are 0, 1, ...
NumColumns(rows) == IF rows = <<>> THEN 0 ELSE Len(rows[1])

\* _VSCODE_getDataFrameColumn; present is what "columnName in df" gave
VSCODE_getDataFrameColumn(df, columnName, present) ==
    IF ~present THEN [status |-> "empty", values |-> <<>>]
    ELSE LET replaced == Replace(VSCODE_convertToDataFrame(df, None, None))
         IN  IF columnName >= NumColumns(replaced.data)
             THEN [status |-> "raised", values |-> <<>>]
             ELSE ColumnValues([i \in 1..Len(replaced.data) |->
                                   replaced.data[i][columnName + 1]])

\* the values of the model: n rows of two cells each
FrameKinds == {"list", "Series", "dict", "SparkDataFrame", "Tensor", "EagerTensor",
               "ndarray", "DataArray", "DataFrame"}
RowOf(i) == <<Cell("int", StrOfInt(10 + i)), Cell("int", StrOfInt(20 + i))>>
ValueOf(kind, n) ==
    Value(kind, 2, "int64", [k \in 1..n |-> 100 + k], [k \in 1..n |-> RowOf(k - 1)])

FrameStart ==
    /\ \E kind \in FrameKinds, n \in 0..MaxRows : dfIn = ValueOf(kind, n)
    /\ \E start \in 0..MaxRowIndex, end \in 0..MaxRowIndex :
          start <= end /\ dfArgs = [start |-> start, end |-> end]
    /\ dfOut = NotAFrame
    /\ dfCol = NoColumn

GetDataFrameRows ==
    /\ ~dfOut.isFrame /\ dfCol = NoColumn
    /\ dfOut' = VSCODE_getDataFrameRows(dfIn, dfArgs.start, dfArgs.end)
    /\ UNCHANGED <<dfIn, dfArgs, dfCol>>
    /\ UNCHANGED <<viewerVars, truncVars, daemonVars, captureVars, normVars, envVars, streamVars, infoVars, pagingVars>>

FrameNext == GetDataFrameRows

\* values with cells of every sort in their second column
SpecialCells ==
    <<Cell("float", "1.5"), Cell("float", "inf"), Cell("float", "-inf"),
      Cell("float", "nan"), Cell("str", "inf"), Cell("int", "7"),
      Cell("bool", "True"), Cell("list", "[inf, 1.0]")>>
CellRow(i, shift) ==
    <<Cell("int", StrOfInt(10 + i)),
      SpecialCells[((i + shift) % Len(SpecialCells)) + 1]>>
CellValueOf(kind, n, shift) ==
    LET rows == [k \in 1..n |-> CellRow(k - 1, shift)]
        dtype == IF \E k \in 1..n : rows[k][2].t \in {"str", "bool", "list"}
                 THEN "object" ELSE "float64"
    IN  Value(kind, 2, dtype, [k \in 1..n |-> 100 + k], rows)

CellsStart ==
    /\ \E kind \in FrameKinds, n \in 0..MaxRows, shift \in 0..(Len(SpecialCells) - 1) :
          dfIn = CellValueOf(kind, n, shift)
    /\ \E start \in 0..MaxRowIndex, end \in 0..MaxRowIndex, column \in 0..MaxColumn :
          start <= end /\ dfArgs = [start |-> start, end |-> end, column |-> column]
    /\ dfOut = NotAFrame
    /\ dfCol = NoColumn

GetDataFrameColumn ==
    /\ ~dfOut.isFrame /\ dfCol = NoColumn
    /\ \E present \in (IF dfIn.kind = "DataFrame"
                        THEN {dfArgs.column < NumColumns(dfIn.rows)} ELSE BOOLEAN) :
          dfCol' = VSCODE_getDataFrameColumn(dfIn, dfArgs.column, present)
    /\ UNCHANGED <<dfIn, dfArgs, dfOut>>
    /\ UNCHANGED <<viewerVars, truncVars, daemonVars, captureVars, normVars, envVars, streamVars, infoVars, pagingVars>>

CellsNext == GetDataFrameRows \/ GetDataFrameColumn

\* what the claim asks of a cell
IsNonFinite(c) == c.t = "float" /\ c.v \in {"inf", "-inf", "nan"}
JsonSafe(c) == IF IsNonFinite(c) THEN Cell("str", c.v) ELSE c

C4_RowWindow ==
    dfOut.isFrame =>
        LET n == Len(dfIn.rows)
            stop == IF dfArgs.end < n THEN dfArgs.end ELSE n
        IN  /\ Len(dfOut.data) = (IF stop > dfArgs.start THEN stop - dfArgs.start ELSE 0)
            /\ \A k \in 1..Len(dfOut.data) : dfOut.data[k] = dfIn.rows[dfArgs.start + k]

(***************************************************************************)
(* vscodeMagics: capture_output and the vsccapture cell magic.  Both       *)
(* copies of the file define them alike (they differ in the stream object  *)
(* put in place of sys.stdout / sys.stderr).  Objects are numbers; 0 is    *)
(* None.                                                                   *)
(***************************************************************************)
Sys(out, err, pub, hook) ==
    [stdout |-> out, stderr |-> err, display_pub |-> pub, displayhook |-> hook]
OriginalSys(shell) == Sys(1, 2, IF shell THEN 3 ELSE 0, 4)

\* capture_output.__init__
NewCapture(out, err, display) ==
    [stdout |-> out, stderr |-> err, display |-> display, shell |-> FALSE,
     sys_stdout |-> 0, sys_stderr |-> 0, save_display_pub |-> 0,
     save_display_hook |-> 0]

\* capture_output.__enter__: the object after it (self), sys after it and
\* the CapturedIO it returns; fresh is a number no object has yet
CaptureEnter(self, sys, shellPresent, fresh) ==
    LET display == self.display /\ shellPresent
        entered == [self EXCEPT
                       !.sys_stdout = sys.stdout,
                       !.sys_stderr = sys.stderr,
                       !.shell = self.display /\ shellPresent,
                       !.display = display,
                       !.save_display_pub = IF display THEN sys.display_pub ELSE 0,
                       !.save_display_hook = IF display THEN sys.displayhook
                                             ELSE self.save_display_hook]
        newOut == IF self.stdout THEN fresh + 1 ELSE 0
        newErr == IF self.stderr THEN fresh + 2 ELSE 0
        outputs == IF display THEN fresh + 5 ELSE 0
    IN  [self |-> entered,
         sys |-> Sys(IF self.stdout THEN newOut ELSE sys.stdout,
                     IF self.stderr THEN newErr ELSE sys.stderr,
                     IF display THEN fresh + 3 ELSE sys.display_pub,
                     IF display THEN fresh + 4 ELSE sys.displayhook),
         io |-> [id |-> fresh, stdout |-> newOut, stderr |-> newErr,
                 outputs |-> outputs]]

\* an __exit__ that leaves sys.displayhook as the block set it
CaptureExit_KeepsHook(self, sys) ==
    Sys(self.sys_stdout, self.sys_stderr,
        IF self.display /\ self.shell THEN self.save_display_pub ELSE sys.display_pub,
        sys.displayhook)

\* capture_output.__exit__: sys after it
CaptureExit(self, sys) ==
    Sys(self.sys_stdout, self.sys_stderr,
        IF self.display /\ self.shell THEN self.save_display_pub ELSE sys.display_pub,
        IF self.display /\ self.shell THEN self.save_display_hook ELSE sys.displayhook)

Fresh == 10 * (nEnters + 1)
NoOp == [op |-> "none", flags |-> <<FALSE, FALSE, FALSE>>, before |-> OriginalSys(FALSE),
         after |-> OriginalSys(FALSE), depth |-> 0, raised |-> FALSE]

\* with capture_output(stdout, stderr, display): the block is entered
Enter ==
    /\ ~cexc /\ nEnters < MaxEnters
    /\ \E out \in BOOLEAN, err \in BOOLEAN, display \in BOOLEAN :
          LET e == CaptureEnter(NewCapture(out, err, display), sysv, hasShell, Fresh)
          IN  /\ sysv' = e.sys
              /\ cstack' = Append(cstack, [self |-> e.self, atEnter |-> sysv])
              /\ lastOp' = [op |-> "enter", flags |-> <<out, err, display>>,
                            before |-> sysv, after |-> e.sys, depth |-> Len(cstack) + 1,
                            raised |-> FALSE]
    /\ nEnters' = nEnters + 1
    /\ UNCHANGED <<hasShell, cexc, user_ns, lastMagic, nRuns>>
    /\ UNCHANGED <<viewerVars, truncVars, daemonVars, frameVars, normVars, envVars, streamVars, infoVars, pagingVars>>

\* the body of the innermost block raises
BodyRaises ==
    /\ ~cexc /\ Len(cstack) > 0
    /\ cexc' = TRUE
    /\ UNCHANGED <<sysv, hasShell, cstack, nEnters, lastOp, user_ns, lastMagic, nRuns>>
    /\ UNCHANGED <<viewerVars, truncVars, daemonVars, frameVars, normVars, envVars, streamVars, infoVars, pagingVars>>

\* the innermost block is left, normally or by the propagating exception
\* (__exit__ returns None, so the exception goes on to the enclosing block)
Exit ==
    /\ Len(cstack) > 0
    /\ LET top == cstack[Len(cstack)]
           after == CaptureExit(top.self, sysv)
       IN  /\ sysv' = after
           /\ lastOp' = [op |-> "exit",
                         flags |-> <<top.self.stdout, top.self.stderr, top.self.display>>,
                         before |-> top.atEnter, after |-> after,
                         depth |-> Len(cstack), raised |-> cexc]
    /\ cstack' = SubSeq(cstack, 1, Len(cstack) - 1)
    /\ UNCHANGED <<hasShell, cexc, nEnters, user_ns, lastMagic, nRuns>>
    /\ UNCHANGED <<viewerVars, truncVars, daemonVars, frameVars, normVars, envVars, streamVars, infoVars, pagingVars>>

\* an except clause outside the blocks left so far handles the exception
Catch ==
    /\ cexc
    /\ cexc' = FALSE
    /\ UNCHANGED <<sysv, hasShell, cstack, nEnters, lastOp, user_ns, lastMagic, nRuns>>
    /\ UNCHANGED <<viewerVars, truncVars, daemonVars, frameVars, normVars, envVars, streamVars, infoVars, pagingVars>>

CaptureStart ==
    /\ hasShell \in BOOLEAN
    /\ sysv = OriginalSys(hasShell)
    /\ cstack = <<>>
    /\ cexc = FALSE
    /\ nEnters = 0
    /\ lastOp = NoOp

CaptureNext == Enter \/ BodyRaises \/ Exit \/ Catch

\* C6: capture_output restores what it replaced.  After __exit__ (also when
\* the body raised) sys.stdout, sys.stderr, shell.display_pub and
\* sys.displayhook are what they were at the matching __enter__; after the
\* outermost exit of properly nested blocks all four are the originals; and
\* __enter__ replaces no stream whose flag is False.
C6_CaptureRestores ==
    /\ lastOp.op = "exit" => lastOp.after = lastOp.before
    /\ (lastOp.op = "exit" /\ cstack = <<>>) => sysv = OriginalSys(hasShell)
    /\ lastOp.op = "enter" =>
          /\ ~lastOp.flags[1] => lastOp.after.stdout = lastOp.before.stdout
          /\ ~lastOp.flags[2] => lastOp.after.stderr = lastOp.before.stderr
          /\ ~lastOp.flags[3] =>
                /\ lastOp.after.display_pub = lastOp.before.display_pub
                /\ lastOp.after.displayhook = lastOp.before.displayhook
          /\ lastOp.flags[1] => lastOp.after.stdout # lastOp.before.stdout
          /\ lastOp.flags[2] => lastOp.after.stderr # lastOp.before.stderr
          /\ (lastOp.flags[3] /\ hasShell) =>
                /\ lastOp.after.display_pub # lastOp.before.display_pub
                /\ lastOp.after.displayhook # lastOp.before.displayhook

\* C6 witness: the outermost of three nested blocks, which captured the
\* display, is left by an exception
C6_Witness ==
    /\ lastOp.op = "exit" /\ lastOp.raised /\ lastOp.depth = 1
    /\ cstack = <<>> /\ nEnters = 3 /\ hasShell
    /\ lastOp.flags = <<TRUE, FALSE, TRUE>>

(***************************************************************************)
(* MyMagics.vsccapture.  A cell is a sequence of tokens: "x" is any token  *)
(* of code, ";" the semicolon operator and "#" a comment or a line end.    *)
(***************************************************************************)
\* the names a cell or the magic binds; the output name may also be empty
Names == {"a", "out"}
OutputNames == Names \cup {""}
Tokens == {"x", ";", "#"}
Cells == UNION {[1..n -> Tokens] : n \in 0..MaxCellTokens}
NoMagic == [ran |-> FALSE, output |-> "", semicolon |-> FALSE, io |-> 0,
            ns |-> [name \in Names |-> 0]]
MagicIdle == user_ns = [name \in Names |-> 0] /\ lastMagic = NoMagic /\ nRuns = 0

\* DisplayHook.semicolon_at_end_of_expression(cell): the last token that is
\* neither a comment nor a line end is a semicolon
RECURSIVE SemicolonAtEnd(_, _)
SemicolonAtEnd(cell, k) ==
    IF k = 0 THEN FALSE
    ELSE IF cell[k] = "#" THEN SemicolonAtEnd(cell, k - 1)
    ELSE cell[k] = ";"
semicolon_at_end_of_expression(cell) == SemicolonAtEnd(cell, Len(cell))

\* what running a cell can do to user_ns: every name is left, deleted, or
\* bound to a value of the cell
CellValue == 2
CellEffects(ns) ==
    {[a |-> va, out |-> vout] : va \in {ns["a"], 0, CellValue},
                                vout \in {ns["out"], 0, CellValue}}
InNs(ns, name) == name \in DOMAIN ns /\ ns[name] # 0

\* a magic that stores the output whatever the cell ends with
StoreOutput_IgnoresSemicolon(ns, output, semicolon, io) ==
    IF output # "" THEN [ns EXCEPT ![output] = io] ELSE ns

\* the statements of vsccapture after the with block; semicolon is what
\* DisplayHook.semicolon_at_end_of_expression(cell) returned
StoreOutput(ns, output, semicolon, io) ==
    IF semicolon
    THEN IF InNs(ns, output) THEN [ns EXCEPT ![output] = 0] ELSE ns
    ELSE IF output # "" THEN [ns EXCEPT ![output] = io] ELSE ns

\* %%vsccapture [--no-stdout] [--no-stderr] [--no-display] [output]
vsccapture ==
    /\ nRuns < MaxRuns /\ cstack = <<>> /\ ~cexc
    /\ \E output \in OutputNames, no_stdout \in BOOLEAN, no_stderr \in BOOLEAN,
          no_display \in BOOLEAN,
          semicolon \in {semicolon_at_end_of_expression(cell) : cell \in Cells} :
          LET e == CaptureEnter(NewCapture(~no_stdout, ~no_stderr, ~no_display),
                                sysv, hasShell, Fresh)
              after == CaptureExit(e.self, e.sys)
          IN  \E ns \in CellEffects(user_ns) :
                 /\ sysv' = after
                 /\ lastOp' = [op |-> "exit",
                               flags |-> <<~no_stdout, ~no_stderr, e.self.display>>,
                               before |-> sysv, after |-> after, depth |-> 1,
                               raised |-> FALSE]
                 /\ user_ns' = StoreOutput(ns, output, semicolon, e.io.id)
                 /\ lastMagic' = [ran |-> TRUE, output |-> output,
                                  semicolon |-> semicolon,
                                  io |-> e.io.id, ns |-> ns]
    /\ nEnters' = nEnters + 1
    /\ nRuns' = nRuns + 1
    /\ UNCHANGED <<hasShell, cstack, cexc>>
    /\ UNCHANGED <<viewerVars, truncVars, daemonVars, frameVars, normVars, envVars, streamVars, infoVars, pagingVars>>

MagicStart ==
    /\ hasShell = TRUE
    /\ sysv = OriginalSys(TRUE)
    /\ cstack = <<>> /\ cexc = FALSE /\ nEnters = 0 /\ lastOp = NoOp
    /\ user_ns \in [Names -> {0, 1}]
    /\ lastMagic = NoMagic
    /\ nRuns = 0

MagicNext == vsccapture

\* C7: after vsccapture ran a cell with output name N: if the cell does not
\* end with a semicolon and N is non-empty, user_ns[N] is the CapturedIO of
\* this run; if the cell ends with a semicolon, N is not a key of user_ns; if
\* N is unspecified the CapturedIO is stored under no name; and every other
\* key is as the cell left it.
C7_OutputName ==
    lastMagic.ran =>
        LET N == lastMagic.output
            semicolon == lastMagic.semicolon
        IN  /\ (~semicolon /\ N # "") => user_ns[N] = lastMagic.io
            /\ semicolon => ~InNs(user_ns, N)
            /\ N = "" => \A name \in Names : user_ns[name] # lastMagic.io
            /\ \A name \in Names \ {N} : user_ns[name] = lastMagic.ns[name]
            /\ (~semicolon /\ N = "") => user_ns = lastMagic.ns

\* C7 witness: a second run whose cell ends with a semicolon
\* removes the name that the first run bound to its CapturedIO
C7_Witness ==
    /\ lastMagic.ran /\ nRuns = 2
    /\ lastMagic.output = "out" /\ lastMagic.semicolon
    /\ lastMagic.ns["out"] = 10 /\ user_ns["out"] = 0

(***************************************************************************)
(* normalizeSelection.normalize_lines.  A text is the sequence of its      *)
(* lines (the text split at every "\n", so a text that ends with a newline *)
(* has an empty last line).  A line is its indentation, in units of four   *)
(* spaces, its kind and its text without the indentation.                  *)
(***************************************************************************)
L(indent, kind, text) == [indent |-> indent, kind |-> kind, text |-> text]
Empty == L(0, "blank", "")
IsCode(line) == line.kind \in {"simple", "header"}
IsBlank(line) == line.kind = "blank"

\* the indentation common to all lines that are not blank
RECURSIVE Margin(_, _)
Margin(lines, k) ==
    IF k = 0 THEN -1
    ELSE LET rest == Margin(lines, k - 1)
         IN  IF IsBlank(lines[k]) THEN rest
             ELSE IF rest = -1 THEN lines[k].indent
             ELSE Min(rest, lines[k].indent)

\* the lines without their common indentation; a blank line becomes empty
Dedent(lines) ==
    LET margin == Margin(lines, Len(lines))
    IN  [k \in 1..Len(lines) |->
            IF IsBlank(lines[k]) THEN Empty
            ELSE [lines[k] EXCEPT !.indent = lines[k].indent - margin]]

\* the statements' lines: neither blank nor comment-only
CodeLines_KeepComments(lines) == SelectSeq(lines, LAMBDA line : ~IsBlank(line))
CodeLines(lines) == SelectSeq(lines, IsCode)

\* whether code parses from line k on; open holds the indentations of the
\* blocks line k is inside, innermost last
RECURSIVE WellIndented(_, _, _)
WellIndented(code, k, open) ==
    IF k > Len(code) THEN code[Len(code)].kind # "header"
    ELSE IF k > 1 /\ code[k - 1].kind = "header"
    THEN /\ code[k].indent > open[Len(open)]
         /\ WellIndented(code, k + 1, Append(open, code[k].indent))
    ELSE \E j \in 1..Len(open) :
            /\ open[j] = code[k].indent
            /\ WellIndented(code, k + 1, SubSeq(open, 1, j))

\* whether the selection is syntactically complete
Parses(lines) ==
    LET code == CodeLines(Dedent(lines))
    IN  code = <<>> \/ WellIndented(code, 1, <<0>>)

\* what follows line i of the code: an empty line when a top-level
\* compound statement ends there
BlockSeparator_None(code, i) == <<>>
BlockSeparator(code, i) ==
    IF code[i].indent > 0 /\ (i = Len(code) \/ code[i + 1].indent = 0)
    THEN <<Empty>> ELSE <<>>

RECURSIVE Emit(_, _)
Emit(code, i) ==
    IF i > Len(code) THEN <<>>
    ELSE <<code[i]>> \o BlockSeparator(code, i) \o Emit(code, i + 1)

\* the selection that does not parse goes back as it is, with a blank line
\* to end the block
AsIs_OneNewline(lines) == lines \o <<Empty>>
AsIs(lines) == lines \o <<Empty, Empty>>

normalize_lines(lines) ==
    IF Parses(lines)
    THEN Emit(CodeLines(Dedent(lines)), 1) \o <<Empty>>
    ELSE AsIs(lines)

\* the selections and results of test_normalize_selection.py
test_basicNormalization ==
    [src |-> <<L(0, "simple", "print(\"this is a test\")")>>,
     expected |-> <<L(0, "simple", "print(\"this is a test\")"), Empty>>]
test_basicNormalization_syntaxerror ==
    [src |-> <<L(0, "header", "if True:")>>,
     expected |-> <<L(0, "header", "if True:"), Empty, Empty>>]
test_commentsGone ==
    [src |-> <<L(0, "comment", "# Some rando comment"), L(0, "simple", "x = 3"), Empty>>,
     expected |-> <<L(0, "simple", "x = 3"), Empty>>]
test_lineAfterMultiline ==
    [src |-> <<L(0, "header", "def show_something():"),
               L(1, "simple", "print(\"Something\")"), Empty>>,
     expected |-> <<L(0, "header", "def show_something():"),
                    L(1, "simple", "print(\"Something\")"), Empty, Empty>>]
test_dedent ==
    [src |-> <<L(3, "header", "def show_something():"),
               L(4, "simple", "print(\"Something\")"), L(3, "blank", "")>>,
     expected |-> <<L(0, "header", "def show_something():"),
                    L(1, "simple", "print(\"Something\")"), Empty, Empty>>]
test_withHangingIndent ==
    [src |-> <<L(0, "simple", "x = 22"), L(0, "simple", "y = 30"),
               L(0, "simple", "z = -10"), L(0, "simple", "result = x + y + z"),
               Empty, L(0, "header", "if result == 42:"),
               L(1, "simple", "print(\"The answer\")"), Empty>>,
     expected |-> <<L(0, "simple", "x = 22"), L(0, "simple", "y = 30"),
                    L(0, "simple", "z = -10"), L(0, "simple", "result = x + y + z"),
                    L(0, "header", "if result == 42:"),
                    L(1, "simple", "print(\"The answer\")"), Empty, Empty>>]
test_clearOutExtraneousNewlines ==
    [src |-> <<L(0, "simple", "value_x = 22"), Empty, L(0, "simple", "value_y = 30"),
               Empty, L(0, "simple", "value_z = -10"), Empty,
               L(0, "simple", "print(value_x + value_y + value_z)"), Empty, Empty>>,
     expected |-> <<L(0, "simple", "value_x = 22"), L(0, "simple", "value_y = 30"),
                    L(0, "simple", "value_z = -10"),
                    L(0, "simple", "print(value_x + value_y + value_z)"), Empty>>]
test_clearOutExtraLinesAndWhitespace ==
    [src |-> <<L(0, "header", "if True:"), L(1, "simple", "x = 22"), Empty,
               L(1, "simple", "y = 30"), Empty, L(1, "simple", "z = -10"), Empty,
               L(0, "simple", "print(x + y + z)"), Empty, Empty>>,
     expected |-> <<L(0, "header", "if True:"), L(1, "simple", "x = 22"),
                    L(1, "simple", "y = 30"), L(1, "simple", "z = -10"), Empty,
                    L(0, "simple", "print(x + y + z)"), Empty>>]
test_semicolon ==
    [src |-> <<L(0, "simple", "a = 3; b = 4"), Empty>>,
     expected |-> <<L(0, "simple", "a = 3; b = 4"), Empty>>]
test_syntaxerror ==
    [src |-> <<L(0, "header", "for x in range(4):"), L(1, "header", "if x > 3:"), Empty>>,
     expected |-> <<L(0, "header", "for x in range(4):"), L(1, "header", "if x > 3:"),
                    Empty, Empty, Empty>>]
Tests ==
    {test_basicNormalization, test_basicNormalization_syntaxerror, test_commentsGone,
     test_lineAfterMultiline, test_dedent, test_withHangingIndent,
     test_clearOutExtraneousNewlines, test_clearOutExtraLinesAndWhitespace,
     test_semicolon, test_syntaxerror}

\* the lines and selections tried beyond the tests'
LineTexts ==
    {<<"comment", "# c">>, <<"simple", "x = 3">>, <<"simple", "a = 3; b = 4">>,
     <<"header", "if True:">>}
Lines == {Empty} \cup {L(i, t[1], t[2]) : i \in 0..MaxIndent, t \in LineTexts}
Selections == UNION {[1..n -> Lines] : n \in 1..MaxSelLines}

NormalizeStart ==
    /\ selection \in Selections \cup {t.src : t \in Tests}
    /\ normalized = <<>>

Normalize ==
    /\ normalized = <<>>
    /\ normalized' = normalize_lines(selection)
    /\ UNCHANGED selection
    /\ UNCHANGED <<viewerVars, truncVars, daemonVars, frameVars, captureVars, envVars,
                   streamVars, infoVars, pagingVars>>

NormalizeNext == Normalize

Passes(tests) == \A t \in tests : selection = t.src => normalized = t.expected
Code(lines) == SelectSeq(lines, IsCode)

\* a compound-statement header that no indented line of code follows
HeaderWithoutBody(lines) ==
    LET code == Code(lines)
    IN  \E k \in 1..Len(code) :
           /\ code[k].kind = "header"
           /\ k = Len(code) \/ code[k + 1].indent <= code[k].indent

\* C8: normalize_lines on a selection that is not syntactically complete
\* (such as a compound-statement header with no body) returns the selection
\* unchanged followed by two newline characters.
C8_IncompleteAsIs ==
    normalized # <<>> =>
        /\ (HeaderWithoutBody(selection) \/ ~Parses(selection)) =>
              /\ Len(normalized) = Len(selection) + 2
              /\ SubSeq(normalized, 1, Len(selection)) = selection
              /\ normalized[Len(selection) + 1] = Empty
              /\ normalized[Len(selection) + 2] = Empty
        /\ Passes({test_basicNormalization_syntaxerror, test_syntaxerror})

\* C8 witness: the selection of test_syntaxerror has been normalized
C8_Witness ==
    selection = test_syntaxerror.src /\ normalized = test_syntaxerror.expected

C10_BlankLineAfterBlock ==
    (normalized # <<>> /\ Parses(selection)) =>
        LET out == SubSeq(normalized, 1, Len(normalized) - 1)
        IN  /\ \A i \in 1..Len(out) :
                  /\ IsBlank(out[i]) =>
                        /\ i > 1 /\ IsCode(out[i - 1]) /\ out[i - 1].indent > 0
                        /\ i = Len(out) \/ (IsCode(out[i + 1]) /\ out[i + 1].indent = 0)
                  /\ (IsCode(out[i]) /\ out[i].indent > 0) =>
                        /\ i < Len(out)
                        /\ IsBlank(out[i + 1]) \/ out[i + 1].indent > 0
                  /\ (IsCode(out[i]) /\ out[i].indent = 0 /\ i < Len(out)) =>
                        ~IsBlank(out[i + 1])
            /\ Passes({test_lineAfterMultiline, test_dedent, test_withHangingIndent,
                       test_clearOutExtraLinesAndWhitespace})

\* C10 witness: a block with a blank line inside it and a statement after it
C10_Witness ==
    /\ selection = <<L(0, "header", "if True:"), L(1, "simple", "x = 3"), Empty,
                     L(0, "simple", "a = 3; b = 4")>>
    /\ normalized = <<L(0, "header", "if True:"), L(1, "simple", "x = 3"), Empty,
                      L(0, "simple", "a = 3; b = 4"), Empty>>

(***************************************************************************)
(* printEnvVariables.py and printEnvVariablesToFile.py.  A string is the   *)
(* sequence of its characters; an environment variable is unset, or set to *)
(* a string.                                                               *)
(***************************************************************************)
Unset == [set |-> FALSE, value |-> <<>>]
SetTo(string) == [set |-> TRUE, value |-> string]
NoEnv == [PYTHONPATH |-> Unset, HOME |-> Unset, reported |-> FALSE]

\* sep.join(entries)
RECURSIVE Join(_, _)
Join(entries, sep) ==
    IF entries = <<>> THEN <<>>
    ELSE IF Len(entries) = 1 THEN entries[1]
    ELSE entries[1] \o <<sep>> \o Join(Tail(entries), sep)

\* string.split(sep)
RECURSIVE Split(_, _)
Split(string, sep) ==
    IF \A k \in 1..Len(string) : string[k] # sep THEN <<string>>
    ELSE LET k == CHOOSE i \in 1..Len(string) :
                     string[i] = sep /\ \A j \in 1..(i - 1) : string[j] # sep
         IN  <<SubSeq(string, 1, k - 1)>> \o Split(SubSeq(string, k + 1, Len(string)), sep)

\* the statements both scripts share: os.environ["PYTHONPATH"] is set to the
\* existing value, a semicolon and sys.path joined with os.pathsep; the
\* result is dict(os.environ)
SpecialCasePYTHONPATH(env) ==
    LET formatted_sys_path == Join(env.sys_path, env.pathsep)
        existing == IF env.PYTHONPATH.set /\ env.PYTHONPATH.value # <<>>
                    THEN env.PYTHONPATH.value \o <<";">> ELSE <<>>
    IN  [PYTHONPATH |-> SetTo(existing \o formatted_sys_path), HOME |-> env.HOME,
         reported |-> TRUE]

PathEntries == {<<"a">>, <<"b", "c">>}
EntryLists(lo) == UNION {[1..n -> PathEntries] : n \in lo..MaxPathEntries}

EnvStart ==
    /\ \E pathsep \in {":", ";"}, entries \in EntryLists(0), sys_path \in EntryLists(1),
          isSet \in BOOLEAN, home \in {Unset, SetTo(<<"h">>)} :
          envIn = [pathsep |-> pathsep,
                   PYTHONPATH |-> IF isSet THEN SetTo(Join(entries, pathsep)) ELSE Unset,
                   existing |-> IF isSet THEN entries ELSE <<>>,
                   HOME |-> home, sys_path |-> sys_path]
    /\ envPrinted = NoEnv
    /\ envFiled = NoEnv

printEnvVariables ==
    /\ ~envPrinted.reported
    /\ envPrinted' = SpecialCasePYTHONPATH(envIn)
    /\ UNCHANGED <<envIn, envFiled>>
    /\ UNCHANGED <<viewerVars, truncVars, daemonVars, frameVars, captureVars, normVars,
                   streamVars, infoVars, pagingVars>>

printEnvVariablesToFile ==
    /\ ~envFiled.reported
    /\ envFiled' = SpecialCasePYTHONPATH(envIn)
    /\ UNCHANGED <<envIn, envPrinted>>
    /\ UNCHANGED <<viewerVars, truncVars, daemonVars, frameVars, captureVars, normVars,
                   streamVars, infoVars, pagingVars>>

EnvNext == printEnvVariables \/ printEnvVariablesToFile

EnvIdle ==
    /\ envIn = [pathsep |-> ":", PYTHONPATH |-> Unset, existing |-> <<>>,
                HOME |-> Unset, sys_path |-> <<>>]
    /\ envPrinted = NoEnv /\ envFiled = NoEnv

\* C12: both scripts report the same environment map; split on os.pathsep,
\* its PYTHONPATH is the entries of the pre-existing PYTHONPATH (if any)
\* followed by the entries of sys.path, and every other variable is
\* reported unchanged.
C12_PythonPathEntries ==
    /\ (envPrinted.reported /\ envFiled.reported) => envPrinted = envFiled
    /\ \A reported \in {envPrinted, envFiled} :
          reported.reported =>
              /\ reported.PYTHONPATH.set
              /\ Split(reported.PYTHONPATH.value, envIn.pathsep)
                    = envIn.existing \o envIn.sys_path
              /\ reported.HOME = envIn.HOME

(***************************************************************************)
(* vscodeMagics copy.py: OutStream.  An attribute the constructor never    *)
(* assigns is "unset" (reading it raises AttributeError).  An argument is  *)
(* a str, with its characters, or some other object.                       *)
(***************************************************************************)
Str(chars) == [isStr |-> TRUE, chars |-> chars]
NotStr == [isStr |-> FALSE, chars |-> <<>>]

\* OutStream(name, echo=echo, watchfd=False): pub_thread is not assigned
NewOutStream(echo) ==
    [pub_thread |-> "unset", buffer |-> <<>>, echo |-> echo, is_master |-> TRUE,
     flush_pending |-> FALSE, subprocess_flush_pending |-> FALSE]

Returned(self, echoed, value) ==
    [self |-> self, echoed |-> echoed, outcome |-> "returned", value |-> value]
Raises(self, echoed, error) ==
    [self |-> self, echoed |-> echoed, outcome |-> error, value |-> <<>>]

\* a write that fills the buffer before it looks at pub_thread
OutStream_write_BufferFirst(self, echoed, string) ==
    IF ~string.isStr THEN Raises(self, echoed, "TypeError")
    ELSE LET buffered == [self EXCEPT !.buffer = self.buffer \o string.chars]
         IN  IF self.pub_thread = "unset" THEN Raises(buffered, echoed, "AttributeError")
             ELSE IF self.pub_thread = "None" THEN Raises(buffered, echoed, "ValueError")
             ELSE Returned(buffered, echoed, <<Len(string.chars)>>)

\* OutStream.write(string); echoed is what the echo stream holds
OutStream_write(self, echoed, string) ==
    IF ~string.isStr THEN Raises(self, echoed, "TypeError")
    ELSE LET echo == IF self.echo THEN echoed \o string.chars ELSE echoed
         IN  IF self.pub_thread = "unset" THEN Raises(self, echo, "AttributeError")
             ELSE IF self.pub_thread = "None" THEN Raises(self, echo, "ValueError")
             ELSE LET buffered == [self EXCEPT !.buffer = self.buffer \o string.chars]
                  IN  IF ~self.is_master
                      THEN IF self.subprocess_flush_pending
                           THEN Returned(buffered, echo, <<>>)
                           ELSE Returned([buffered EXCEPT !.subprocess_flush_pending = TRUE],
                                         echo, <<Len(string.chars)>>)
                      ELSE Returned([buffered EXCEPT !.flush_pending = FALSE,
                                                     !.subprocess_flush_pending = FALSE],
                                    echo, <<Len(string.chars)>>)

\* OutStream.writelines(sequence), from its k-th string on
RECURSIVE WriteFrom(_, _, _, _)
WriteFrom(self, echoed, sequence, k) ==
    IF k > Len(sequence) THEN Returned(self, echoed, <<>>)
    ELSE LET w == OutStream_write(self, echoed, sequence[k])
         IN  IF w.outcome # "returned" THEN w
             ELSE WriteFrom(w.self, w.echoed, sequence, k + 1)
OutStream_writelines(self, echoed, sequence) ==
    IF self.pub_thread = "unset" THEN Raises(self, echoed, "AttributeError")
    ELSE IF self.pub_thread = "None" THEN Raises(self, echoed, "ValueError")
    ELSE WriteFrom(self, echoed, sequence, 1)

\* OutStream.close()
OutStream_close(self, echoed) ==
    Returned([self EXCEPT !.pub_thread = "None"], echoed, <<>>)

\* the closed property
OutStream_closed(self, echoed) ==
    IF self.pub_thread = "unset" THEN Raises(self, echoed, "AttributeError")
    ELSE Returned(self, echoed, <<self.pub_thread = "None">>)

\* OutStream.getvalue()
OutStream_getvalue(self, echoed) ==
    Returned([self EXCEPT !.buffer = <<>>], echoed, self.buffer)

Arguments == {Str(<<>>), Str(<<"a">>), Str(<<"b", "c">>), NotStr}
ArgumentLists == UNION {[1..n -> Arguments] : n \in 0..MaxSmall}
NoCall == [op |-> "none", args |-> <<>>, outcome |-> "returned", value |-> <<>>,
           before |-> NewOutStream(FALSE), echoBefore |-> <<>>, writtenBefore |-> <<>>]

\* a call of the stream: the new state and the record of the call
Call(op, args, r) ==
    /\ osCalls < MaxCalls
    /\ os' = r.self
    /\ osEcho' = r.echoed
    /\ osLast' = [op |-> op, args |-> args, outcome |-> r.outcome, value |-> r.value,
                  before |-> os, echoBefore |-> osEcho, writtenBefore |-> osWritten]
    /\ osCalls' = osCalls + 1
    /\ UNCHANGED <<viewerVars, truncVars, daemonVars, frameVars, captureVars, normVars,
                   envVars, infoVars, pagingVars>>

StreamWrite ==
    \E string \in Arguments :
       LET r == OutStream_write(os, osEcho, string)
       IN  /\ Call("write", <<string>>, r)
           /\ osWritten' = IF r.outcome = "returned" THEN osWritten \o string.chars
                           ELSE osWritten
StreamWritelines ==
    \E sequence \in ArgumentLists :
       /\ Call("writelines", sequence, OutStream_writelines(os, osEcho, sequence))
       /\ osWritten' = osWritten \o SubSeq(os'.buffer, Len(os.buffer) + 1, Len(os'.buffer))
StreamClose == Call("close", <<>>, OutStream_close(os, osEcho)) /\ UNCHANGED osWritten
StreamClosed == Call("closed", <<>>, OutStream_closed(os, osEcho)) /\ UNCHANGED osWritten
StreamGetvalue == Call("getvalue", <<>>, OutStream_getvalue(os, osEcho)) /\ osWritten' = <<>>

StreamStart ==
    /\ \E echo \in BOOLEAN : os = NewOutStream(echo)
    /\ osEcho = <<>>
    /\ osLast = NoCall
    /\ osWritten = <<>>
    /\ osCalls = 0

StreamNext ==
    StreamWrite \/ StreamWritelines \/ StreamClose \/ StreamClosed \/ StreamGetvalue

StreamIdle ==
    /\ os = NewOutStream(FALSE) /\ osEcho = <<>> /\ osLast = NoCall
    /\ osWritten = <<>> /\ osCalls = 0

\* C13: on an OutStream that has been constructed and not closed, write(s)
\* with a str s returns len(s) and appends s to the buffer, the next
\* getvalue() returns everything written since the previous getvalue(), and
\* the closed property is False.
C13_WriteAppends ==
    /\ (osLast.op = "write" /\ osLast.args[1].isStr /\ osLast.before.pub_thread # "None") =>
          /\ osLast.outcome = "returned"
          /\ osLast.value = <<Len(osLast.args[1].chars)>>
          /\ os.buffer = osLast.before.buffer \o osLast.args[1].chars
    /\ osLast.op = "getvalue" =>
          osLast.outcome = "returned" /\ osLast.value = osLast.writtenBefore
    /\ (osLast.op = "closed" /\ osLast.before.pub_thread # "None") =>
          osLast.outcome = "returned" /\ osLast.value = <<FALSE>>

\* C14: after close() the closed property is True and every write of a str
\* and every writelines raises ValueError and leaves the buffer unchanged;
\* write of an argument that is not a str raises TypeError and touches
\* neither the echo stream nor the buffer, on an open and on a closed
\* stream.
C14_ClosedStream ==
    /\ osLast.op = "close" => OutStream_closed(os, osEcho).value = <<TRUE>>
    /\ (osLast.op = "closed" /\ osLast.before.pub_thread = "None") =>
          osLast.outcome = "returned" /\ osLast.value = <<TRUE>>
    /\ (/\ osLast.before.pub_thread = "None"
        /\ \/ osLast.op = "write" /\ osLast.args[1].isStr
           \/ osLast.op = "writelines") =>
          osLast.outcome = "ValueError" /\ os.buffer = osLast.before.buffer
    /\ (osLast.op = "write" /\ ~osLast.args[1].isStr) =>
          /\ osLast.outcome = "TypeError"
          /\ osEcho = osLast.echoBefore
          /\ os.buffer = osLast.before.buffer

\* C14 witness: a closed stream with an echo stream has refused a str
C14_Witness ==
    /\ osLast.op = "write" /\ osLast.args = <<Str(<<"a">>)>>
    /\ osLast.before.pub_thread = "None" /\ osLast.outcome = "ValueError"
    /\ os.echo /\ osEcho # osLast.echoBefore /\ osCalls = 3

(***************************************************************************)
(* vscodeDataFrame.py: _VSCODE_getDataFrameInfo.  A column label is a str  *)
(* or an int, kept with its text; the index name is a str, where "" stands *)
(* for None as well.                                                       *)
(***************************************************************************)
StrLabel(text) == [isInt |-> FALSE, text |-> text]
IntLabel(text) == [isInt |-> TRUE, text |-> text]
NoInfo == [outcome |-> "none", columnNames |-> <<>>, columnTypes |-> <<>>,
           columns |-> <<>>, indexColumn |-> ""]

\* whether df[key] finds a column
HasColumn(df, key) == \E n \in 1..Len(df.columns) : df.columns[n] = key

\* get_col(df, column_name): "col", or the exception it ends with
get_col(df, column_name) ==
    IF HasColumn(df, StrLabel(column_name)) THEN "col"
    ELSE IF column_name \notin {"0", "1", "2", "3"} THEN "ValueError"
    ELSE IF HasColumn(df, IntLabel(column_name)) THEN "col"
    ELSE "KeyError"

\* the entries of the loop over columnNames, up to the first exception
RECURSIVE ColumnEntries(_, _, _, _)
ColumnEntries(df, columnNames, columnTypes, n) ==
    IF n > Len(columnNames) THEN [outcome |-> "returned", columns |-> <<>>]
    ELSE LET column_name == columnNames[n].text
             statistics == column_name # "index"
             col == IF statistics THEN get_col(df, column_name) ELSE "col"
             rest == ColumnEntries(df, columnNames, columnTypes, n + 1)
         IN  IF col # "col" THEN [outcome |-> col, columns |-> <<>>]
             ELSE [outcome |-> rest.outcome,
                   columns |-> <<[name |-> column_name, type |-> columnTypes[n],
                                  statistics |-> statistics]>> \o rest.columns]

VSCODE_getDataFrameInfo(df) ==
    LET \* the keys of the JSON of the first row, or list(df)
        names == IF df.rowCount > 0
                 THEN [n \in 1..Len(df.columns) |-> StrLabel(df.columns[n].text)]
                 ELSE df.columns
        types == [n \in 1..Len(df.columns) |-> "float64"]
        indexColumn == IF df.indexName # "" THEN df.indexName ELSE "index"
        missing == \A n \in 1..Len(names) : names[n] # StrLabel(indexColumn)
        columnNames == IF missing THEN <<StrLabel(indexColumn)>> \o names ELSE names
        columnTypes == IF missing THEN <<"int64">> \o types ELSE types
        entries == ColumnEntries(df, columnNames, columnTypes, 1)
    IN  [outcome |-> entries.outcome, columnNames |-> columnNames,
         columnTypes |-> columnTypes, columns |-> entries.columns,
         indexColumn |-> indexColumn]

Labels == {StrLabel("a"), StrLabel("id"), StrLabel("index"), IntLabel("0"), IntLabel("1")}
LabelLists ==
    {columns \in UNION {[1..n -> Labels] : n \in 0..MaxSmall} :
        \A i, j \in 1..Len(columns) : i # j => columns[i] # columns[j]}
IndexNames == {"", "index", "id", "key", "a", "0"}

InfoStart ==
    /\ \E columns \in LabelLists, indexName \in IndexNames, rowCount \in 0..MaxSmall :
          infoIn = [columns |-> columns, indexName |-> indexName, rowCount |-> rowCount]
    /\ infoOut = NoInfo

GetDataFrameInfo ==
    /\ infoOut = NoInfo
    /\ infoOut' = VSCODE_getDataFrameInfo(infoIn)
    /\ UNCHANGED infoIn
    /\ UNCHANGED <<viewerVars, truncVars, daemonVars, frameVars, captureVars, normVars,
                   envVars, streamVars, pagingVars>>

InfoNext == GetDataFrameInfo

InfoIdle ==
    infoIn = [columns |-> <<>>, indexName |-> "", rowCount |-> 0] /\ infoOut = NoInfo

\* the index of the DataFrame has been renamed to a name that is no column
RenamedIndex(df) ==
    /\ df.indexName # ""
    /\ \A n \in 1..Len(df.columns) : df.columns[n].text # df.indexName

\* C15: for a DataFrame whose index has been renamed to a name that is not
\* a column, _VSCODE_getDataFrameInfo completes, its indexColumn and its
\* first column entry are that name, and no statistics are computed for the
\* index column; in every result the index column appears exactly once
\* among the columns and the column names and types are equally many.
C15_RenamedIndex ==
    infoOut.outcome # "none" =>
        /\ RenamedIndex(infoIn) =>
              /\ infoOut.outcome = "returned"
              /\ infoOut.indexColumn = infoIn.indexName
              /\ infoOut.columns[1].name = infoIn.indexName
              /\ ~infoOut.columns[1].statistics
        /\ infoOut.outcome = "returned" =>
              /\ Cardinality({n \in 1..Len(infoOut.columns) :
                                 infoOut.columns[n].name = infoOut.indexColumn}) = 1
              /\ Len(infoOut.columnNames) = Len(infoOut.columnTypes)

(***************************************************************************)
(* The root-level requests of the two viewer scripts:                      *)
(* _VSCODE_getVariable(what_to_get, is_debugging, *args) of                *)
(* vscodeGetVariableInfo.py and _VSCODE_getVariableDescriptions(varNames)  *)
(* of vscodeGetVariablesForProvider.py.                                    *)
(***************************************************************************)
\* a JSON object as the sequence of its members, in insertion order; a key
\* assigned twice keeps its first position
Member(key, value) == [key |-> key, value |-> value]
JsonObject(members) ==
    LET First(k) == \A j \in 1..(k - 1) : members[j].key # members[k].key
        firsts == {k \in 1..Len(members) : First(k)}
        Nth(n) == CHOOSE k \in firsts : Cardinality({j \in firsts : j < k}) = n - 1
    IN  [n \in 1..Cardinality(firsts) |-> members[Nth(n)]]

\* mutant: the root-level descriptions of the provider keep every defined name
VSCODE_getVariableDescriptions_KeepsAll(g, varNames) ==
    LET Kept(varName) == varName \in GlobalNames
        kept == SelectSeq(varNames, Kept)
    IN  Ret("str",
            [k \in 1..Len(kept) |->
                ChildDesc(getVariableDescription(Globals(g)[kept[k]]),
                          <<kept[k]>>, kept[k], <<>>, "python")],
            <<>>)

\* provider: the descriptions of the requested names that are defined and
\* whose type is not excluded
VSCODE_getVariableDescriptions(g, varNames) ==
    LET Kept(varName) ==
            /\ varName \in GlobalNames
            /\ Globals(g)[varName].type \notin typesToExclude
        kept == SelectSeq(varNames, Kept)
    IN  Ret("str",
            [k \in 1..Len(kept) |->
                ChildDesc(getVariableDescription(Globals(g)[kept[k]]),
                          <<kept[k]>>, kept[k], <<>>, "python")],
            <<>>)

\* variable info script: the descriptions of the requested names that are defined
VSCODE_getVariableDescriptions_VI(g, is_debugging, varNames) ==
    LET Kept(varName) == varName \in GlobalNames
        kept == SelectSeq(varNames, Kept)
    IN  Deliver(is_debugging,
                [k \in 1..Len(kept) |->
                    ChildDesc(getVariableDescription_VI(Globals(g)[kept[k]]),
                              <<kept[k]>>, kept[k], <<>>, "python")])

\* shape, count and type of one value; no value of the model has a shape
VSCODE_getVariableInfo(is_debugging, var) ==
    Deliver(is_debugging,
            [shape |-> "",
             count |-> IF HasLen(var) THEN PyLen(var) ELSE 0,
             type |-> var.type])

\* repr of the listed attributes the value has
VSCODE_getVariableProperties(is_debugging, var, listOfAttributes) ==
    LET Has(attr) == HasAttr(var, attr)
        has == SelectSeq(listOfAttributes, Has)
    IN  Deliver(is_debugging,
                JsonObject([k \in 1..Len(has) |->
                               Member(has[k], repr(GetAttr(var, has[k])))]))

\* type names of the listed variables; globals()[name] of an undefined name
\* raises KeyError, which the except TypeError clause does not catch
VSCODE_getVariableTypes(g, is_debugging, varnames) ==
    IF \E k \in 1..Len(varnames) : varnames[k] \notin GlobalNames THEN RetRaise
    ELSE Deliver(is_debugging,
                 JsonObject([k \in 1..Len(varnames) |->
                                Member(varnames[k], Globals(g)[varnames[k]].type)]))

\* the arguments of a request; a request reads the fields of its own form
Args(var, attrs, names, rc, start) ==
    [var |-> var, listOfAttributes |-> attrs, names |-> names,
     root |-> rc[1], chain |-> rc[2], start |-> start]

\* the dispatch on what_to_get; the finally clause only unbinds local names
VSCODE_getVariable(g, what_to_get, is_debugging, args) ==
    CASE what_to_get = "properties" ->
            VSCODE_getVariableProperties(is_debugging, Globals(g)[args.var],
                                         args.listOfAttributes)
      [] what_to_get = "info" ->
            VSCODE_getVariableInfo(is_debugging, Globals(g)[args.var])
      [] what_to_get = "AllVariableDescriptions" ->
            VSCODE_getVariableDescriptions_VI(g, is_debugging, args.names)
      [] what_to_get = "AllChildrenDescriptions" ->
            VSCODE_getAllChildrenDescriptions_VI(g, is_debugging, args.root,
                                                 args.chain, args.start)
      [] OTHER -> VSCODE_getVariableTypes(g, is_debugging, args.names)

\* the requested names: defined ones, a function, None and an undefined one
RequestNames == {"v", "o", "none", "fn", "undefined"}
NameLists ==
    {<<>>} \cup UNION {[1..n -> RequestNames] : n \in 1..MaxNames}
AttributeLists == {<<>>, <<"x">>, <<"x", "nope">>, <<"append", "__class__">>}
NoArgs == Args("v", <<>>, <<>>, <<"v", <<>>>>, 0)

RootReq(version, what_to_get, dbg, args) ==
    [version |-> version, what_to_get |-> what_to_get, is_debugging |-> dbg,
     args |-> args]

RootRequests ==
    {RootReq("provider", "AllVariableDescriptions", TRUE,
             Args("v", <<>>, names, <<"v", <<>>>>, 0)) : names \in NameLists}
    \cup {RootReq("info", "properties", dbg, Args(var, attrs, <<>>, <<"v", <<>>>>, 0)) :
            dbg \in BOOLEAN, var \in GlobalNames, attrs \in AttributeLists}
    \cup {RootReq("info", "info", dbg, Args(var, <<>>, <<>>, <<"v", <<>>>>, 0)) :
            dbg \in BOOLEAN, var \in GlobalNames}
    \cup {RootReq("info", what, dbg, Args("v", <<>>, names, <<"v", <<>>>>, 0)) :
            what \in {"AllVariableDescriptions", "types", "anything"},
            dbg \in BOOLEAN, names \in NameLists}
    \cup {RootReq("info", "AllChildrenDescriptions", dbg, Args("v", <<>>, <<>>, rc, start)) :
            dbg \in BOOLEAN, rc \in CollRequests \cup OtherRequests,
            start \in 0..MaxSmall}

RootStart ==
    /\ res = NoRes
    /\ glob \in [kind : CollKinds, n : 0..MaxSmall]
    /\ req \in RootRequests

GetVariableDescriptions ==
    /\ res.ret = "pending"
    /\ req.version = "provider"
    /\ res' = VSCODE_getVariableDescriptions(glob, req.args.names)
    /\ UNCHANGED <<glob, req, truncVars, daemonVars, frameVars, captureVars, normVars, envVars, streamVars, infoVars, pagingVars>>

GetVariable ==
    /\ res.ret = "pending"
    /\ req.version = "info"
    /\ res' = VSCODE_getVariable(glob, req.what_to_get, req.is_debugging, req.args)
    /\ UNCHANGED <<glob, req, truncVars, daemonVars, frameVars, captureVars, normVars, envVars, streamVars, infoVars, pagingVars>>

RootNext == GetVariableDescriptions \/ GetVariable

\* C16: every finished request of _VSCODE_getVariable returned the JSON string
\* and printed nothing when is_debugging is true, and printed exactly that
\* JSON string once and returned None when is_debugging is false
C16_ReturnOrPrint ==
    (req.version = "info" /\ res.ret # "pending") =>
        IF req.is_debugging
        THEN res.ret = "str" /\ res.printed = <<>>
        ELSE /\ res.ret = "None"
             /\ Len(res.printed) = 1
             /\ LET debugged == VSCODE_getVariable(glob, req.what_to_get, TRUE, req.args)
                IN  debugged.ret = "str" /\ res.printed[1] = debugged.payload

\* C17: the provider's root-level descriptions never raise; they hold, in the
\* order of varNames, one entry for each requested name that is defined and
\* whose type name is not module, function, method, class or type, with name
\* and root that name and an empty propertyChain
C17_ListedNames ==
    (req.version = "provider" /\ res.ret # "pending") =>
        LET varNames == req.args.names
            Wanted(k) ==
                /\ varNames[k] \in DOMAIN Globals(glob)
                /\ Globals(glob)[varNames[k]].type
                      \notin {"module", "function", "method", "class", "type"}
            wanted == {k \in 1..Len(varNames) : Wanted(k)}
            \* the position in the result of the k-th requested name
            At(k) == Cardinality({j \in wanted : j <= k})
        IN  /\ res.ret = "str"
            /\ Len(res.payload) = Cardinality(wanted)
            /\ \A k \in wanted :
                  /\ res.payload[At(k)].name = <<varNames[k]>>
                  /\ res.payload[At(k)].root = varNames[k]
                  /\ res.payload[At(k)].propertyChain = <<>>

\* a request that names an undefined name, a function and a listed variable
C17_Witness ==
    /\ req.version = "provider" /\ res.ret = "str"
    /\ \E k \in 1..Len(req.args.names) : req.args.names[k] \in {"undefined", "fn"}
    /\ Len(res.payload) = 1
    /\ Len(req.args.names) = 2

(***************************************************************************)
(* Paging through a collection: the caller asks for the children of one    *)
(* list, tuple or set parent with startIndex 0, arrayPageSize,             *)
(* 2*arrayPageSize, ... and stops at the first empty page.                 *)
(***************************************************************************)
\* the children a call delivered: returned, or printed when not debugging
PageOf(result) ==
    IF result.ret = "None" /\ Len(result.printed) = 1 THEN result.printed[1]
    ELSE result.payload

\* one call of the paging loop and what the caller does with its page
TakePage(result) ==
    /\ res' = result
    /\ pgChildren' = pgChildren \o PageOf(result)
    /\ pgDone' = (PageOf(result) = <<>>)
    /\ req' = [req EXCEPT !.start = @ + arrayPageSize]

NextPageProvider ==
    /\ ~pgDone
    /\ req.version = "provider"
    /\ TakePage(VSCODE_getAllChildrenDescriptions(glob, req.root, req.chain, req.start))
    /\ UNCHANGED <<glob, truncVars, daemonVars, frameVars, captureVars, normVars, envVars, streamVars, infoVars>>

NextPageVariableInfo ==
    /\ ~pgDone
    /\ req.version = "info"
    /\ TakePage(VSCODE_getAllChildrenDescriptions_VI(glob, req.is_debugging, req.root,
                                                     req.chain, req.start))
    /\ UNCHANGED <<glob, truncVars, daemonVars, frameVars, captureVars, normVars, envVars, streamVars, infoVars>>

PagingStart ==
    /\ res = NoRes
    /\ pgChildren = <<>>
    /\ pgDone = FALSE
    /\ glob \in [kind : CollKinds, n : 0..MaxCount]
    /\ \E rc \in CollRequests, dbg \in BOOLEAN :
          req \in {Req("provider", TRUE, rc, 0), Req("info", dbg, rc, 0)}

PagingNext == NextPageProvider \/ NextPageVariableInfo
PagingIdle == pgChildren = <<>> /\ pgDone = TRUE

\* the index a child stands for: the last element of its property chain
ChildIndex(child) == child.propertyChain[Len(child.propertyChain)].i

\* C21: the pages of a list, tuple or set parent with n elements, asked for
\* with startIndex 0, arrayPageSize, 2*arrayPageSize, ... up to the first
\* empty page, hold concatenated one child for each index 0..n-1 in
\* increasing order: no index is missing and none is repeated
C21_PagesCoverOnce ==
    /\ Len(pgChildren) <= glob.n
    /\ \A k \in 1..Len(pgChildren) :
          /\ ChildIndex(pgChildren[k]) = k - 1
          /\ pgChildren[k].name = StrOfInt(k - 1)
    /\ pgDone => Len(pgChildren) = glob.n

\* a collection of more than one page has been paged to its end
C21_Witness ==
    /\ pgDone
    /\ glob.n > arrayPageSize
    /\ req.start > 2 * arrayPageSize
    /\ Len(pgChildren) = glob.n

(***************************************************************************)
(* The specifications: one per helper, the other helpers idle.             *)
(***************************************************************************)
ViewerIdle == glob = [kind |-> "list", n |-> 0] /\ req = Req("provider", TRUE, <<"v", <<>>>>, 0) /\ res = NoRes
TruncIdle == tsIn = MkNone /\ tsOut = NoValue
DaemonIdle ==
    /\ dpc = "done" /\ ppid = 0 /\ interrupt_handles = EmptyMap
    /\ evObj = [ev \in EventHandles |-> 0] /\ nObj = 0 /\ nDupe = 0
    /\ madeFor = EmptyMap /\ closedObjs = {} /\ stdout = <<>> /\ last = NoStep
    /\ nLines = 0

FrameIdle ==
    /\ dfIn = ValueOf("list", 0) /\ dfArgs = [start |-> 0, end |-> 0]
    /\ dfOut = NotAFrame /\ dfCol = NoColumn

CaptureIdle ==
    /\ hasShell = FALSE /\ sysv = OriginalSys(FALSE) /\ cstack = <<>> /\ cexc = FALSE
    /\ nEnters = 0 /\ lastOp = NoOp /\ MagicIdle

NormalizeIdle == selection = <<Empty>> /\ normalized = <<>>

\* every helper but one is idle
OthersIdle(helper) ==
    /\ IF helper \in {"viewer", "root", "paging"} THEN TRUE ELSE ViewerIdle
    /\ IF helper = "trunc" THEN TRUE ELSE TruncIdle
    /\ IF helper = "daemon" THEN TRUE ELSE DaemonIdle
    /\ IF helper = "frame" THEN TRUE ELSE FrameIdle
    /\ IF helper \in {"capture", "magic"} THEN TRUE ELSE CaptureIdle
    /\ IF helper = "normalize" THEN TRUE ELSE NormalizeIdle
    /\ IF helper = "env" THEN TRUE ELSE EnvIdle
    /\ IF helper = "stream" THEN TRUE ELSE StreamIdle
    /\ IF helper = "info" THEN TRUE ELSE InfoIdle
    /\ IF helper = "paging" THEN TRUE ELSE PagingIdle

ViewerInit == ViewerStart /\ OthersIdle("viewer")
SpecViewer == ViewerInit /\ [][ViewerNext]_vars

TruncInit == TruncStart /\ OthersIdle("trunc")
SpecTrunc == TruncInit /\ [][TruncNext]_vars

DaemonInit == DaemonStart /\ OthersIdle("daemon")
SpecDaemon == DaemonInit /\ [][DaemonNext]_vars

FrameInit == FrameStart /\ OthersIdle("frame")
SpecFrame == FrameInit /\ [][FrameNext]_vars
CellsInit == CellsStart /\ OthersIdle("frame")
SpecCells == CellsInit /\ [][CellsNext]_vars

CaptureInit == CaptureStart /\ MagicIdle /\ OthersIdle("capture")
SpecCapture == CaptureInit /\ [][CaptureNext]_vars
MagicInit == MagicStart /\ OthersIdle("magic")
SpecMagic == MagicInit /\ [][MagicNext]_vars
NormalizeInit == NormalizeStart /\ OthersIdle("normalize")
SpecNormalize == NormalizeInit /\ [][NormalizeNext]_vars
EnvInit == EnvStart /\ OthersIdle("env")
SpecEnv == EnvInit /\ [][EnvNext]_vars
StreamInit == StreamStart /\ OthersIdle("stream")
SpecStream == StreamInit /\ [][StreamNext]_vars
InfoInit == InfoStart /\ OthersIdle("info")
SpecInfo == InfoInit /\ [][InfoNext]_vars
RootInit == RootStart /\ OthersIdle("root")
SpecRoot == RootInit /\ [][RootNext]_vars
PagingInit == PagingStart /\ OthersIdle("paging")
SpecPaging == PagingInit /\ [][PagingNext]_vars

====
